---------------------------- MODULE Spec2Model ----------------------------
(***************************************************************************)
(* Model of the orchestration core of ceiling-smasher-ai:                  *)
(*   - the retrying remote-call client, ai/analyst.py _generate_with_log;  *)
(*   - the analysis stages of ai/analyst.py that call it;                  *)
(*   - the AI pipeline of main.py (launch, scan, join, vetting, CIO).      *)
(*                                                                         *)
(* Python strings are sequences of one-character strings, so that slicing, *)
(* concatenation and the substring test are computed, not assumed.  The    *)
(* Python value None is the one-element sequence <<"None">>, which no      *)
(* sequence of characters equals.                                          *)
(*                                                                         *)
(* Time is counted in milliseconds (the unit of latency_ms).               *)
(***************************************************************************)
EXTENDS Integers, Sequences, FiniteSets, TLC

\* ------------------------------------------------------------------------
\* Python values and string helpers
\* ------------------------------------------------------------------------

None == <<"None">>

Min(a, b) == IF a <= b THEN a ELSE b

\* s[:n]
Take(s, n) == SubSeq(s, 1, Min(n, Len(s)))

\* p in s  (substring test of two strings)
Contains(s, p) ==
    \E i \in 0..(Len(s) - Len(p)) : SubSeq(s, i + 1, i + Len(p)) = p

\* bool(x) of a value that is a string or None
Truthy(x) == x # None /\ Len(x) > 0

RECURSIVE SumSeq(_)
SumSeq(s) == IF s = <<>> THEN 0 ELSE Head(s) + SumSeq(Tail(s))

RECURSIVE Pow2(_)
Pow2(n) == IF n = 0 THEN 1 ELSE 2 * Pow2(n - 1)

\* ------------------------------------------------------------------------
\* The retrying client: _generate_with_log
\* ------------------------------------------------------------------------

max_retries == 3
base_delay == 2
MsPerSec == 1000
DigestLen == 200

S_429 == <<"4", "2", "9">>
S_RESOURCE_EXHAUSTED ==
    <<"R", "E", "S", "O", "U", "R", "C", "E", "_",
      "E", "X", "H", "A", "U", "S", "T", "E", "D">>
S_Ellipsis == <<".", ".", ".">>
S_NoText == <<"N", "o", " ", "T", "e", "x", "t">>

\* Error texts the remote service can fail with (str(e)).
E_429 == <<"4", "2", "9", " ", "Q">>
E_Quota == S_RESOURCE_EXHAUSTED
E_500 == <<"5", "0", "0", " ", "E">>
E_42_9 == <<"4", "2", " ", "9">>
ErrorTexts == {E_429, E_Quota, E_500, E_42_9}

\* Response texts of a successful call (response.text); None and the empty
\* text are responses that carry no text.
T_List == <<"1", ".", " ", "A", "B">>
T_Cash == <<"$", "C", "D">>
T_Empty == <<>>
ResponseTexts == {T_List, T_Cash, T_Empty, None}

\* One remote call ends in a response or in an exception.
Ok(text) == [ok |-> TRUE, val |-> text]
Err(msg) == [ok |-> FALSE, val |-> msg]
RemoteOutcomes == {Ok(t) : t \in ResponseTexts} \cup {Err(m) : m \in ErrorTexts}

\* random.uniform(0, 1), in milliseconds
JitterChoices == {0, 500, MsPerSec - 1}
\* wall-clock time one remote call can take, in milliseconds
CallDurations == {40, 900}

\* "429" in error_str or "RESOURCE_EXHAUSTED" in error_str
IsRateLimit(error_str) ==
    Contains(error_str, S_429) \/ Contains(error_str, S_RESOURCE_EXHAUSTED)

ShouldRetry_AnyError(error_str, attempt) == attempt < max_retries
ShouldRetry_NoCap(error_str, attempt) == IsRateLimit(error_str)
\* the two nested ifs of the except block: sleep and continue
ShouldRetry(error_str, attempt) ==
    IsRateLimit(error_str) /\ attempt < max_retries

BackoffDelay_Linear(attempt, jitter) ==
    (base_delay * (attempt + 1)) * MsPerSec + jitter
\* delay = (base_delay * (2 ** attempt)) + random.uniform(0, 1)
BackoffDelay(attempt, jitter) ==
    (base_delay * Pow2(attempt)) * MsPerSec + jitter

\* response.text[:200] + "..." if response.text else "No Text"
ResponseDigest(text) ==
    IF Truthy(text) THEN Take(text, DigestLen) \o S_Ellipsis ELSE S_NoText

\* The local state of one logical call.
\*   pc        where the call stands: "try" (about to call the service),
\*             "sleep" (in time.sleep), "returned", "raised"
\*   attempt   the loop variable
\*   calls     the outcome of every remote call made so far
\*   delay     the delay computed for the pending sleep
\*   sleeps    the delays slept so far
\*   log_entry the record under construction
\*   emitted   the records printed as __API_LOG__ lines
\*   elapsed   time.time() - start_time
\*   result    the text returned or the error raised
NewCall ==
    [pc |-> "try", attempt |-> 0, calls |-> <<>>, delay |-> 0, sleeps |-> <<>>,
     log_entry |-> [status |-> "PENDING", latency_ms |-> 0,
                    response |-> None, error |-> None],
     emitted |-> <<>>, elapsed |-> 0, result |-> None]

IdleCall == [NewCall EXCEPT !.pc = "idle"]

\* lines 117-129: the call returned a response
OnSuccess(st, text, t) ==
    LET entry == [st.log_entry EXCEPT !.status = "200 OK",
                                      !.latency_ms = t,
                                      !.response = ResponseDigest(text)]
    IN [st EXCEPT !.pc = "returned", !.elapsed = t, !.log_entry = entry,
                  !.emitted = Append(@, entry), !.result = text]

\* lines 136-141: rate limited and retries left; the delay is computed and
\* the call goes to sleep
OnRetry_Record(st, error_str, t, jitter) ==
    LET entry == [st.log_entry EXCEPT !.status = "ERROR", !.error = error_str,
                                      !.latency_ms = t]
    IN [st EXCEPT !.pc = "sleep", !.elapsed = t, !.log_entry = entry,
                  !.emitted = Append(@, entry),
                  !.delay = BackoffDelay(st.attempt, jitter)]
OnRetry(st, error_str, t, jitter) ==
    [st EXCEPT !.pc = "sleep", !.elapsed = t,
               !.delay = BackoffDelay(st.attempt, jitter)]

\* lines 143-150: the failure is terminal
OnTerminalError(st, error_str, t) ==
    LET entry == [st.log_entry EXCEPT !.status = "ERROR", !.error = error_str,
                                      !.latency_ms = t]
    IN [st EXCEPT !.pc = "raised", !.elapsed = t, !.log_entry = entry,
                  !.emitted = Append(@, entry), !.result = error_str]

\* One pass of the loop body (lines 110-150): the remote call and the
\* handling of its outcome.
AttemptStep(st, out, dur, jitter) ==
    LET t == st.elapsed + dur
        st1 == [st EXCEPT !.calls = Append(@, out)]
    IN IF out.ok THEN OnSuccess(st1, out.val, t)
       ELSE IF ShouldRetry(out.val, st.attempt) THEN OnRetry(st1, out.val, t, jitter)
       ELSE OnTerminalError(st1, out.val, t)

SleepStep_ShortLoop(st) ==
    LET st1 == [st EXCEPT !.sleeps = Append(@, st.delay),
                          !.elapsed = @ + st.delay, !.delay = 0]
    IN IF st.attempt + 1 < max_retries
       THEN [st1 EXCEPT !.pc = "try", !.attempt = @ + 1]
       ELSE [st1 EXCEPT !.pc = "returned", !.result = <<>>]
\* time.sleep(delay); continue: the for loop (range(max_retries + 1)) takes
\* its next value, or ends and the function returns "" (line 152)
SleepStep(st) ==
    LET st1 == [st EXCEPT !.sleeps = Append(@, st.delay),
                          !.elapsed = @ + st.delay, !.delay = 0]
    IN IF st.attempt + 1 <= max_retries
       THEN [st1 EXCEPT !.pc = "try", !.attempt = @ + 1]
       ELSE [st1 EXCEPT !.pc = "returned", !.result = <<>>]

\* ------------------------------------------------------------------------
\* The symbol extractor: extract_tickers_from_analysis
\* ------------------------------------------------------------------------

Digits == {"0", "1", "2", "3", "4", "5", "6", "7", "8", "9"}
UpperSeq ==
    <<"A", "B", "C", "D", "E", "F", "G", "H", "I", "J", "K", "L", "M",
      "N", "O", "P", "Q", "R", "S", "T", "U", "V", "W", "X", "Y", "Z">>
LowerSeq ==
    <<"a", "b", "c", "d", "e", "f", "g", "h", "i", "j", "k", "l", "m",
      "n", "o", "p", "q", "r", "s", "t", "u", "v", "w", "x", "y", "z">>
Upper == {UpperSeq[i] : i \in 1..Len(UpperSeq)}
\* \s
Space == {" ", "\n", "\t", "\r", "\f"}
\* [\*_]
Marks == {"*", "_"}

\* str.upper(), one character and a whole string
UpperChar(c) ==
    IF \E i \in 1..Len(LowerSeq) : LowerSeq[i] = c
    THEN UpperSeq[CHOOSE i \in 1..Len(LowerSeq) : LowerSeq[i] = c]
    ELSE c
UpperCase(s) == [i \in 1..Len(s) |-> UpperChar(s[i])]

\* str.strip()
RECURSIVE Strip(_)
Strip(s) ==
    IF s = <<>> THEN s
    ELSE IF Head(s) \in Space THEN Strip(Tail(s))
    ELSE IF s[Len(s)] \in Space THEN Strip(SubSeq(s, 1, Len(s) - 1))
    ELSE s

\* The character at index i (from 1), or "" past the ends.
At(text, i) == IF i >= 1 /\ i <= Len(text) THEN text[i] ELSE ""

\* X* : the index after the longest run of characters of S that starts at i
RECURSIVE SkipSet(_, _, _)
SkipSet(text, i, S) ==
    IF i <= Len(text) /\ text[i] \in S THEN SkipSet(text, i + 1, S) ELSE i

\* c? : the index after an optional character c at i
Opt(text, i, c) == IF At(text, i) = c THEN i + 1 ELSE i

\* the literal lit at i
LitAt(text, i, lit) ==
    i + Len(lit) - 1 <= Len(text) /\ SubSeq(text, i, i + Len(lit) - 1) = lit

\* a variant that takes a token only when the whole run of capitals has 2 to 6
\* letters
TickerEnd_Whole(text, i) ==
    LET e == SkipSet(text, i, Upper)
    IN IF e - i >= 2 /\ e - i <= 6 THEN e ELSE 0
\* ([A-Z]{2,6}) at i, greedy: the index after the token, or 0 when fewer
\* than two capitals stand there
TickerEnd(text, i) ==
    LET e == Min(SkipSet(text, i, Upper), i + 6)
    IN IF e - i >= 2 THEN e ELSE 0

NoMatch == [ok |-> FALSE, sym |-> <<>>, end |-> 0]
Match(text, from, to, end) == [ok |-> TRUE, sym |-> SubSeq(text, from, to - 1), end |-> end]

\* [\*_]*\(?\d+\.\)?\s*[\*_]*\[?([A-Z]{2,6})\]?  starting at j.  The
\* classes that follow one another are disjoint, so the greedy match is the
\* only one: backtracking cannot find another.
ListItemRest(text, j) ==
    LET b == Opt(text, SkipSet(text, j, Marks), "(")
        c == SkipSet(text, b, Digits)
    IN IF c = b \/ At(text, c) # "." THEN NoMatch
       ELSE LET g == Opt(text, SkipSet(text, SkipSet(text, Opt(text, c + 1, ")"), Space), Marks), "[")
                h == TickerEnd(text, g)
            IN IF h = 0 THEN NoMatch ELSE Match(text, g, h, Opt(text, h, "]"))

\* pattern 1 at i: (?:^|\n) then the list item; ^ is the start of the text
\* only (no MULTILINE flag)
MatchListItem(text, i) ==
    LET atStart == IF i = 1 THEN ListItemRest(text, 1) ELSE NoMatch
    IN IF atStart.ok THEN atStart
       ELSE IF At(text, i) = "\n" THEN ListItemRest(text, i + 1)
       ELSE NoMatch

S_THE == <<"T", "H", "E", " ">>
S_LONG == <<"L", "O", "N", "G">>
S_MOONSHOT == <<"M", "O", "O", "N", "S", "H", "O", "T">>

\* pattern 2 at i: THE (?:LONG|MOONSHOT):?\s*\*?\[?([A-Z]{2,6})\]?\*?
MatchCallOut(text, i) ==
    LET k == IF ~LitAt(text, i, S_THE) THEN 0
             ELSE IF LitAt(text, i + 4, S_LONG) THEN i + 4 + Len(S_LONG)
             ELSE IF LitAt(text, i + 4, S_MOONSHOT) THEN i + 4 + Len(S_MOONSHOT)
             ELSE 0
    IN IF k = 0 THEN NoMatch
       ELSE LET g == Opt(text, Opt(text, SkipSet(text, Opt(text, k, ":"), Space), "*"), "[")
                h == TickerEnd(text, g)
            IN IF h = 0 THEN NoMatch
               ELSE Match(text, g, h, Opt(text, Opt(text, h, "]"), "*"))

\* pattern 3 at i: \$([A-Z]{2,6})
MatchCashtag(text, i) ==
    IF At(text, i) # "$" THEN NoMatch
    ELSE LET h == TickerEnd(text, i + 1)
         IN IF h = 0 THEN NoMatch ELSE Match(text, i + 1, h, h)

MatchAt(p, text, i) ==
    CASE p = 1 -> MatchListItem(text, i)
      [] p = 2 -> MatchCallOut(text, i)
      [] p = 3 -> MatchCashtag(text, i)

\* re.findall(pattern p, text) from index i: the groups of the leftmost
\* non-overlapping matches
RECURSIVE FindAll(_, _, _)
FindAll(p, text, i) ==
    IF i > Len(text) THEN <<>>
    ELSE LET m == MatchAt(p, text, i)
         IN IF m.ok THEN <<m.sym>> \o FindAll(p, text, m.end)
            ELSE FindAll(p, text, i + 1)

\* a variant of the list without the connective AND
StopWords_NoAnd ==
    {<<"T", "H", "E">>, <<"R", "S", "I">>, <<"U", "S", "D">>,
     <<"I", "N", "P", "U", "T">>, <<"D", "A", "T", "A">>, <<"A", "I">>,
     <<"U", "R", "L">>, <<"P", "D", "F">>, <<"L", "O", "N", "G">>,
     <<"S", "H", "O", "R", "T">>, <<"T", "O">>, <<"O", "R">>, <<"I", "F">>}
StopWords ==
    {<<"T", "H", "E">>, <<"R", "S", "I">>, <<"U", "S", "D">>,
     <<"I", "N", "P", "U", "T">>, <<"D", "A", "T", "A">>, <<"A", "I">>,
     <<"U", "R", "L">>, <<"P", "D", "F">>, <<"L", "O", "N", "G">>,
     <<"S", "H", "O", "R", "T">>, <<"T", "O">>, <<"A", "N", "D">>,
     <<"O", "R">>, <<"I", "F">>}

\* the three findall calls, in the order of the code
RawTickers(text) == FindAll(1, text, 1) \o FindAll(2, text, 1) \o FindAll(3, text, 1)

\* the filter loop (lines 252-257) and set(clean_tickers)
CleanTickers(found) ==
    {UpperCase(Strip(found[i])) : i \in
          {n \in 1..Len(found) :
              /\ Strip(found[n]) # <<>>
              /\ Len(Strip(found[n])) >= 2
              /\ UpperCase(Strip(found[n])) \notin StopWords}}

\* the whole function, on a string
extract_tickers_from_analysis(text) == CleanTickers(RawTickers(text))

\* ------------------------------------------------------------------------
\* The analysis stages of ai/analyst.py
\* ------------------------------------------------------------------------

S_GeminiKeyError ==
    <<"[", "r", "e", "d", "]", "E", "r", "r", "o", "r", ":", " ", "G",
    "E", "M", "I", "N", "I", "_", "A", "P", "I", "_", "K", "E", "Y", " ",
    "n", "o", "t", " ", "f", "o", "u", "n", "d", ".", "[", "/", "r", "e",
    "d", "]">>
S_XaiKeyError ==
    <<"[", "r", "e", "d", "]", "E", "r", "r", "o", "r", ":", " ", "X",
    "A", "I", "_", "A", "P", "I", "_", "K", "E", "Y", " ", "n", "o", "t",
    " ", "f", "o", "u", "n", "d", ".", "[", "/", "r", "e", "d", "]">>
S_PromptLoadError ==
    <<"[", "r", "e", "d", "]", "P", "r", "o", "m", "p", "t", " ", "L",
    "o", "a", "d", " ", "E", "r", "r", "o", "r", ":", " ">>
S_AnalysisFailed ==
    <<"[", "r", "e", "d", "]", "A", "I", " ", "A", "n", "a", "l", "y",
    "s", "i", "s", " ", "F", "a", "i", "l", "e", "d", ":", " ">>
S_GoogleFailed ==
    <<"[", "r", "e", "d", "]", "A", "g", "e", "n", "t", " ", "I", "d",
    "e", "a", "s", " ", "F", "r", "o", "m", " ", "G", "o", "o", "g", "l",
    "e", " ", "F", "a", "i", "l", "e", "d", ":", " ">>
S_XFailed ==
    <<"[", "r", "e", "d", "]", "A", "g", "e", "n", "t", " ", "I", "d",
    "e", "a", "s", " ", "F", "r", "o", "m", " ", "X", " ", "F", "a", "i",
    "l", "e", "d", ":", " ">>
S_EndRed ==
    <<"[", "/", "r", "e", "d", "]">>
S_NoTickers ==
    <<"N", "o", " ", "t", "i", "c", "k", "e", "r", "s", " ", "f", "o",
    "u", "n", "d", " ", "t", "o", " ", "v", "e", "t", ".">>
\* str(e) of the exception open() raises on a missing prompt file
E_NoFile ==
    <<"[", "E", "r", "r", "n", "o", " ", "2", "]", " ", "N", "o", " ",
    "s", "u", "c", "h", " ", "f", "i", "l", "e", " ", "o", "r", " ", "d",
    "i", "r", "e", "c", "t", "o", "r", "y">>
\* str(e) of the TypeError that None[:200] raises
E_TypeError ==
    <<"'", "N", "o", "n", "e", "T", "y", "p", "e", "'", " ", "o", "b",
    "j", "e", "c", "t", " ", "i", "s", " ", "n", "o", "t", " ", "s", "u",
    "b", "s", "c", "r", "i", "p", "t", "a", "b", "l", "e">>

GeminiStages == {"google", "alpha", "value"}
StageIds == GeminiStages \cup {"x"}

PromptFile(s) ==
    CASE s = "alpha" -> "agent1_alpha.txt"
      [] s = "value" -> "agent2_value.txt"
      [] s = "google" -> "agent_ideas_from_Google.txt"
      [] s = "x" -> "agent_ideas_from_X.txt"
      [] s = "red" -> "agent4_redteam.txt"
      [] s = "cio" -> "agent3_cio.txt"

\* the text of the last except clause of each stage
FailPrefix(s) ==
    CASE s = "google" -> S_GoogleFailed
      [] s = "x" -> S_XFailed
      [] OTHER -> S_AnalysisFailed

\* The frame of one stage function.
\*   pc      "unsubmitted", "queued" (submitted, not started), "calling"
\*           (inside the remote call or its retry loop), "done"
\*   runs    how many times the function body was entered
\*   prompts how many times _load_prompt was called
\*   cl      the state of its logical remote call
\*   failed  whether it ended on one of its error paths
\*   raised  whether an exception left the function (it is then the
\*           exception of the future, and result() raises it)
\*   result  the value it returned
NewFrame ==
    [pc |-> "unsubmitted", runs |-> 0, prompts |-> 0, cl |-> IdleCall,
     failed |-> FALSE, raised |-> FALSE, result |-> None]

Finish(fr, failed, result) ==
    [fr EXCEPT !.pc = "done", !.failed = failed, !.result = result]

ErrorString(prefix, msg) == prefix \o msg \o S_EndRed

GeminiStart_PromptFirst(fr, s, env) ==
    LET f1 == [fr EXCEPT !.runs = @ + 1, !.prompts = @ + 1]
    IN IF PromptFile(s) \in env.missing
       THEN Finish(f1, TRUE, ErrorString(S_PromptLoadError, E_NoFile))
       ELSE IF ~env.GEMINI_API_KEY THEN Finish(f1, TRUE, S_GeminiKeyError)
       ELSE [f1 EXCEPT !.pc = "calling", !.cl = NewCall]
\* analyze_concentrated_alpha, analyze_deep_value, analyze_ideas_from_google
\* and execute_portfolio_strategy up to the remote call: _get_client(), the
\* credential test, then _load_prompt
GeminiStart(fr, s, env) ==
    LET f1 == [fr EXCEPT !.runs = @ + 1]
        f2 == [f1 EXCEPT !.prompts = @ + 1]
    IN IF ~env.GEMINI_API_KEY THEN Finish(f1, TRUE, S_GeminiKeyError)
       ELSE IF PromptFile(s) \in env.missing
       THEN Finish(f2, TRUE, ErrorString(S_PromptLoadError, E_NoFile))
       ELSE [f2 EXCEPT !.pc = "calling", !.cl = NewCall]

GeminiAfterCall_NoCatch(fr, s, cl) ==
    IF cl.pc = "returned" THEN Finish([fr EXCEPT !.cl = cl], FALSE, cl.result)
    ELSE IF cl.pc = "raised"
    THEN [fr EXCEPT !.cl = cl, !.pc = "done", !.failed = TRUE, !.raised = TRUE]
    ELSE [fr EXCEPT !.cl = cl]
\* return _generate_with_log(...) / except Exception as e: return f"...{e}..."
GeminiAfterCall(fr, s, cl) ==
    IF cl.pc = "returned" THEN Finish([fr EXCEPT !.cl = cl], FALSE, cl.result)
    ELSE IF cl.pc = "raised"
    THEN Finish([fr EXCEPT !.cl = cl], TRUE, ErrorString(FailPrefix(s), cl.result))
    ELSE [fr EXCEPT !.cl = cl]

\* analyze_ideas_from_x up to the remote call: the credential test, the
\* client, then _load_prompt inside the try
XStart(fr, env) ==
    LET f1 == [fr EXCEPT !.runs = @ + 1]
        f2 == [f1 EXCEPT !.prompts = @ + 1]
    IN IF ~env.XAI_API_KEY THEN Finish(f1, TRUE, S_XaiKeyError)
       ELSE IF PromptFile("x") \in env.missing
       THEN Finish(f2, TRUE, ErrorString(S_XFailed, E_NoFile))
       ELSE [f2 EXCEPT !.pc = "calling", !.cl = NewCall]

\* analyze_ideas_from_x, lines 50-73: one remote call, no retry; the record
\* is printed on success only; a response without content raises in
\* result_text[:200] and ends in the except clause
XCall(fr, out, dur) ==
    LET cl1 == [fr.cl EXCEPT !.calls = Append(@, out), !.elapsed = dur]
        entry == [cl1.log_entry EXCEPT !.status = "200 OK", !.latency_ms = dur,
                                       !.response = Take(out.val, DigestLen) \o S_Ellipsis]
    IN IF out.ok /\ out.val # None
       THEN Finish([fr EXCEPT !.cl = [cl1 EXCEPT !.pc = "returned", !.log_entry = entry,
                                                 !.emitted = Append(@, entry),
                                                 !.result = out.val]],
                   FALSE, out.val)
       ELSE LET msg == IF out.ok THEN E_TypeError ELSE out.val
            IN Finish([fr EXCEPT !.cl = [cl1 EXCEPT !.pc = "raised", !.result = msg]],
                      TRUE, ErrorString(S_XFailed, msg))

\* ------------------------------------------------------------------------
\* main(): helpers
\* ------------------------------------------------------------------------

max_workers == 5

\* the order of the four future.result() calls
JoinOrder == <<"alpha", "value", "google", "x">>

\* list.sort(key=score, reverse=True): stable, descending
RECURSIVE InsertByScore_Unstable(_, _)
\* a variant that puts a record before the records of equal score
InsertByScore_Unstable(sorted, r) ==
    IF sorted = <<>> THEN <<r>>
    ELSE IF Head(sorted).score > r.score
    THEN <<Head(sorted)>> \o InsertByScore_Unstable(Tail(sorted), r)
    ELSE <<r>> \o sorted
RECURSIVE InsertByScore(_, _)
InsertByScore(sorted, r) ==
    IF sorted = <<>> THEN <<r>>
    ELSE IF Head(sorted).score >= r.score
    THEN <<Head(sorted)>> \o InsertByScore(Tail(sorted), r)
    ELSE <<r>> \o sorted
RECURSIVE SortByScoreDesc(_)
SortByScoreDesc(rs) ==
    IF rs = <<>> THEN <<>>
    ELSE InsertByScore(SortByScoreDesc(SubSeq(rs, 1, Len(rs) - 1)), rs[Len(rs)])

\* list(set(xs)): the elements of a set in some order
Orderings(S) ==
    {f \in [1..Cardinality(S) -> S] : \A i, j \in 1..Cardinality(S) : i # j => f[i] # f[j]}

\* future.result() blocks until the task is done
JoinReady_NoWait(fr) == fr.pc \in {"calling", "done"}
JoinReady(fr) == fr.pc = "done"

\* future.result() of a finished stage
JoinResult_DropFailed(fr) == IF fr.failed THEN <<>> ELSE fr.result
JoinResult(fr) == fr.result

\* ThreadPoolExecutor(max_workers=5): a queued task starts when fewer than
\* max_workers tasks are running
PoolHasFreeWorker(st) ==
    Cardinality({s \in StageIds : st[s].pc = "calling"}) < max_workers

\* f"{analysis}" of a string or None
Str(x) == IF x = None THEN <<"N", "o", "n", "e">> ELSE x

NewRed ==
    [pc |-> "unsubmitted", runs |-> 0, prompts |-> 0, cl |-> IdleCall,
     failed |-> FALSE, idx |-> 0, final_report |-> <<>>]

NoText == [kind |-> "none"]
Text(t) == [kind |-> "text", text |-> t]
Report(sections) == [kind |-> "report", sections |-> sections]

\* ------------------------------------------------------------------------
\* The environments explored
\* ------------------------------------------------------------------------

\* which prompt files are missing from ai/agents/
MissingChoices == {{}, {"agent1_alpha.txt"}, {"agent4_redteam.txt"}}

Snap(t, sc) == [ticker |-> t, score |-> sc]
\* what the scanners can return, in completion order
ScanChoices == {<<>>, <<Snap("X", 45)>>, <<Snap("Y", 20), Snap("X", 45)>>}

\* what a remote call of the pipeline can end in: a Gemini call, and the
\* X.AI call
PipeOutcomes == {Ok(T_List), Ok(None), Err(E_429), Err(E_500)}
XOutcomes == {Ok(T_Cash), Ok(None), Err(E_429)}
\* the remote services answer at most this many calls of one run with a
\* rate-limit failure
MaxRateLimited == 1
\* duration of a remote call and jitter of a backoff in the pipeline runs
PipeTiming == [dur |-> 40, jitter |-> 0]

VARIABLES
    call,         \* SpecClient: the one logical call under study
    args,         \* the command line: pm, fundamentals, scan, ai
    env,          \* credentials present, prompt files missing
    mpc,          \* where main() stands
    launched,     \* whether main() submitted the independent stages
    stage,        \* the frame of each analysis stage (a task of ai_executor)
    joined,       \* how many future.result() calls have returned
    analysis,     \* analysis_alpha, analysis_value, analysis_google, analysis_x
    all_results,  \* the merged scan results
    handed,       \* the texts handed to extract_tickers_from_analysis
    tickers,      \* the deduplicated symbols, as listed
    red,          \* the frame of analyze_red_team
    analysis_red,
    cio,          \* the frame of execute_portfolio_strategy
    cio_args,     \* the keyword arguments it was called with
    analysis_cio,
    rateHits,     \* rate-limit failures served in this run
    scan,         \* SpecScan: one call of scan_tickers / scan_etfs
    ext,          \* SpecExtract: one call of extract_tickers_from_analysis
    fuse          \* SpecFuse: the context filter of execute_portfolio_strategy

clientVars == <<call>>
pipeVars ==
    <<args, env, mpc, launched, stage, joined, analysis, all_results, handed,
      tickers, red, analysis_red, cio, cio_args, analysis_cio, rateHits>>
unitVars == <<scan, ext, fuse>>
vars == <<clientVars, pipeVars, unitVars>>

\* the functions studied on their own are not running
UnitsIdle ==
    /\ scan = [pc |-> "idle"]
    /\ ext = [pc |-> "idle"]
    /\ fuse = [pc |-> "idle"]

\* ------------------------------------------------------------------------
\* SpecClient: one logical call of _generate_with_log, every sequence of
\* remote outcomes, jitters and call durations
\* ------------------------------------------------------------------------

PipeIdle ==
    /\ args = [pm |-> FALSE, fundamentals |-> FALSE, scan |-> FALSE, ai |-> FALSE]
    /\ env = [GEMINI_API_KEY |-> TRUE, XAI_API_KEY |-> TRUE, missing |-> {}]
    /\ mpc = "start"
    /\ launched = FALSE
    /\ stage = [s \in StageIds |-> NewFrame]
    /\ joined = 0
    /\ analysis = [s \in StageIds |-> None]
    /\ all_results = <<>>
    /\ handed = <<>>
    /\ tickers = <<>>
    /\ red = NewRed
    /\ analysis_red = NoText
    /\ cio = NewFrame
    /\ cio_args = NoText
    /\ analysis_cio = None
    /\ rateHits = 0

InitClient == call = NewCall /\ PipeIdle /\ UnitsIdle

ClientAttempt ==
    /\ call.pc = "try"
    /\ \E out \in RemoteOutcomes, dur \in CallDurations, j \in JitterChoices :
          call' = AttemptStep(call, out, dur, j)
    /\ UNCHANGED <<pipeVars, unitVars>>

ClientSleep ==
    /\ call.pc = "sleep"
    /\ call' = SleepStep(call)
    /\ UNCHANGED <<pipeVars, unitVars>>

NextClient == ClientAttempt \/ ClientSleep

SpecClient == InitClient /\ [][NextClient]_vars

\* ------------------------------------------------------------------------
\* Spec: one run of main() with its worker threads
\* ------------------------------------------------------------------------

Init ==
    /\ call = IdleCall
    /\ UnitsIdle
    /\ args \in [pm : BOOLEAN, fundamentals : BOOLEAN, scan : BOOLEAN, ai : BOOLEAN]
    /\ env \in [GEMINI_API_KEY : BOOLEAN, XAI_API_KEY : BOOLEAN, missing : MissingChoices]
    /\ mpc = "start"
    /\ launched = FALSE
    /\ stage = [s \in StageIds |-> NewFrame]
    /\ joined = 0
    /\ analysis = [s \in StageIds |-> None]
    /\ all_results = <<>>
    /\ handed = <<>>
    /\ tickers = <<>>
    /\ red = NewRed
    /\ analysis_red = NoText
    /\ cio = NewFrame
    /\ cio_args = NoText
    /\ analysis_cio = None
    /\ rateHits = 0

\* The outcomes the remote service can still produce.
Allowed(outs) ==
    IF rateHits < MaxRateLimited THEN outs
    ELSE {o \in outs : o.ok \/ ~IsRateLimit(o.val)}
Served(out) == IF ~out.ok /\ IsRateLimit(out.val) THEN rateHits + 1 ELSE rateHits

\* ---- the worker threads of ai_executor ----

\* a Gemini stage starts on a free worker: credential test and prompt load
Worker_Start(s) ==
    /\ s \in GeminiStages
    /\ stage[s].pc = "queued"
    /\ PoolHasFreeWorker(stage)
    /\ stage' = [stage EXCEPT ![s] = GeminiStart(stage[s], s, env)]
    /\ UNCHANGED <<unitVars, call, args, env, mpc, launched, joined, analysis, all_results,
                   handed, tickers, red, analysis_red, cio, cio_args, analysis_cio, rateHits>>

\* one attempt of its logical call
Worker_Attempt(s) ==
    /\ s \in GeminiStages
    /\ stage[s].pc = "calling"
    /\ stage[s].cl.pc = "try"
    /\ \E out \in Allowed(PipeOutcomes) :
          /\ stage' = [stage EXCEPT ![s] =
                 GeminiAfterCall(stage[s], s,
                     AttemptStep(stage[s].cl, out, PipeTiming.dur, PipeTiming.jitter))]
          /\ rateHits' = Served(out)
    /\ UNCHANGED <<unitVars, call, args, env, mpc, launched, joined, analysis, all_results,
                   handed, tickers, red, analysis_red, cio, cio_args, analysis_cio>>

\* the end of its backoff sleep
Worker_Sleep(s) ==
    /\ s \in GeminiStages
    /\ stage[s].pc = "calling"
    /\ stage[s].cl.pc = "sleep"
    /\ stage' = [stage EXCEPT ![s] = GeminiAfterCall(stage[s], s, SleepStep(stage[s].cl))]
    /\ UNCHANGED <<unitVars, call, args, env, mpc, launched, joined, analysis, all_results,
                   handed, tickers, red, analysis_red, cio, cio_args, analysis_cio, rateHits>>

X_Start ==
    /\ stage["x"].pc = "queued"
    /\ PoolHasFreeWorker(stage)
    /\ stage' = [stage EXCEPT !["x"] = XStart(stage["x"], env)]
    /\ UNCHANGED <<unitVars, call, args, env, mpc, launched, joined, analysis, all_results,
                   handed, tickers, red, analysis_red, cio, cio_args, analysis_cio, rateHits>>

X_Call ==
    /\ stage["x"].pc = "calling"
    /\ \E out \in Allowed(XOutcomes) :
          /\ stage' = [stage EXCEPT !["x"] = XCall(stage["x"], out, PipeTiming.dur)]
          /\ rateHits' = Served(out)
    /\ UNCHANGED <<unitVars, call, args, env, mpc, launched, joined, analysis, all_results,
                   handed, tickers, red, analysis_red, cio, cio_args, analysis_cio>>

\* ---- the main thread ----

\* lines 50-173: the modes that return before the pipeline, and the usage
\* exit; other stands for --portfolio or --alpha-toolkit
Main_Start ==
    /\ mpc = "start"
    /\ \E other \in BOOLEAN :
          mpc' = IF args.pm THEN "pm_mode"
                 ELSE IF args.fundamentals THEN "fundamentals_mode"
                 ELSE IF ~(args.scan \/ args.ai \/ other) THEN "usage_exit"
                 ELSE "launch"
    /\ UNCHANGED <<unitVars, call, args, env, launched, stage, joined, analysis, all_results,
                   handed, tickers, red, analysis_red, cio, cio_args, analysis_cio, rateHits>>

\* lines 175-187: submit the independent stages
Main_Launch ==
    /\ mpc = "launch"
    /\ IF args.ai
       THEN /\ stage' = [stage EXCEPT !["google"].pc = "queued", !["x"].pc = "queued"]
            /\ launched' = TRUE
       ELSE UNCHANGED <<stage, launched>>
    /\ mpc' = "scan"
    /\ UNCHANGED <<unitVars, call, args, env, joined, analysis, all_results,
                   handed, tickers, red, analysis_red, cio, cio_args, analysis_cio, rateHits>>

\* lines 189-236: the scans
Main_Scan ==
    /\ mpc = "scan"
    /\ \E r \in (IF args.scan THEN ScanChoices ELSE {<<>>}) : all_results' = r
    /\ mpc' = "report"
    /\ UNCHANGED <<unitVars, call, args, env, launched, stage, joined, analysis,
                   handed, tickers, red, analysis_red, cio, cio_args, analysis_cio, rateHits>>

\* lines 238-317: nothing found, or the master table, the saved scan
\* report and its return
Main_Report ==
    /\ mpc = "report"
    /\ IF all_results = <<>> /\ ~args.ai
       THEN mpc' = "no_opportunities" /\ UNCHANGED all_results
       ELSE /\ all_results' = SortByScoreDesc(all_results)
            /\ mpc' = IF args.scan /\ all_results # <<>> THEN "scan_saved"
                      ELSE IF args.ai THEN "council"
                      ELSE "finished"
    /\ UNCHANGED <<unitVars, call, args, env, launched, stage, joined, analysis,
                   handed, tickers, red, analysis_red, cio, cio_args, analysis_cio, rateHits>>

\* lines 318-367: load the reports, submit the dependent stages
Main_Council ==
    /\ mpc = "council"
    /\ stage' = [stage EXCEPT !["alpha"].pc = "queued", !["value"].pc = "queued"]
    /\ mpc' = "join"
    /\ UNCHANGED <<unitVars, call, args, env, launched, joined, analysis, all_results,
                   handed, tickers, red, analysis_red, cio, cio_args, analysis_cio, rateHits>>

\* lines 370-375: the next future.result() returns, or raises what the
\* stage raised; after the last one, ai_executor.shutdown()
Main_Join ==
    /\ mpc = "join"
    /\ LET s == JoinOrder[joined + 1]
       IN /\ JoinReady(stage[s])
          /\ IF stage[s].raised
             THEN mpc' = "crashed" /\ UNCHANGED <<analysis, joined>>
             ELSE /\ analysis' = [analysis EXCEPT ![s] = JoinResult(stage[s])]
                  /\ joined' = joined + 1
                  /\ mpc' = IF joined + 1 = Len(JoinOrder) THEN "display" ELSE "join"
    /\ UNCHANGED <<unitVars, call, args, env, launched, stage, all_results,
                   handed, tickers, red, analysis_red, cio, cio_args, analysis_cio, rateHits>>

\* lines 377-399: Markdown(analysis_*) of the four texts; Markdown(None)
\* raises and main() ends with it
Main_Display ==
    /\ mpc = "display"
    /\ mpc' = IF \E s \in StageIds : analysis[s] = None THEN "crashed" ELSE "extract"
    /\ UNCHANGED <<unitVars, call, args, env, launched, stage, joined, analysis, all_results,
                   handed, tickers, red, analysis_red, cio, cio_args, analysis_cio, rateHits>>

\* lines 401-418: extract the symbols of the four texts, deduplicate, and
\* choose between the vetting and its placeholder
Main_Extract ==
    /\ mpc = "extract"
    /\ handed' = [i \in 1..Len(JoinOrder) |-> analysis[JoinOrder[i]]]
    /\ LET syms == UNION {extract_tickers_from_analysis(analysis[s]) : s \in StageIds}
       IN /\ \E order \in Orderings(syms) : tickers' = order
          /\ IF syms # {}
             THEN mpc' = "red_team" /\ UNCHANGED analysis_red
             ELSE mpc' = "cio" /\ analysis_red' = Text(S_NoTickers)
    /\ UNCHANGED <<unitVars, call, args, env, launched, stage, joined, analysis, all_results,
                   red, cio, cio_args, analysis_cio, rateHits>>

\* ---- analyze_red_team, run by the main thread ----

Section(ticker, ok, body) == [ticker |-> ticker, ok |-> ok, body |-> body]

\* a variant in which a failed ticker ends the loop
RedNext_StopOnFailure(r, section, n) ==
    LET r1 == [r EXCEPT !.final_report = Append(@, section)]
    IN IF r.idx < n /\ section.ok THEN [r1 EXCEPT !.pc = "prompt", !.idx = @ + 1]
       ELSE [r1 EXCEPT !.pc = "done"]
\* the end of one pass of the for loop: the section is appended and the loop
\* goes to the next ticker, or the function returns final_report
RedNext(r, section, n) ==
    LET r1 == [r EXCEPT !.final_report = Append(@, section)]
    IN IF r.idx < n THEN [r1 EXCEPT !.pc = "prompt", !.idx = @ + 1]
       ELSE [r1 EXCEPT !.pc = "done"]

\* lines 298-309: the analysis of the ticker, or the failure caught
RedAfterCall(r, cl, tks) ==
    LET r1 == [r EXCEPT !.cl = cl]
    IN IF cl.pc = "returned"
       THEN RedNext(r1, Section(tks[r.idx], TRUE, Str(cl.result)), Len(tks))
       ELSE IF cl.pc = "raised"
       THEN RedNext([r1 EXCEPT !.failed = TRUE],
                    Section(tks[r.idx], FALSE, cl.result), Len(tks))
       ELSE r1

\* what main() does once red' is known
RedReturns(r) ==
    IF r.pc = "done"
    THEN mpc' = "cio" /\ analysis_red' = Report(r.final_report)
    ELSE UNCHANGED <<mpc, analysis_red>>

\* lines 266-272: the credential test
Red_Start ==
    /\ mpc = "red_team"
    /\ red.pc = "unsubmitted"
    /\ IF ~env.GEMINI_API_KEY
       THEN /\ red' = [red EXCEPT !.pc = "done", !.runs = @ + 1, !.failed = TRUE]
            /\ analysis_red' = Text(S_GeminiKeyError)
            /\ mpc' = "cio"
       ELSE /\ red' = [red EXCEPT !.pc = "prompt", !.runs = @ + 1, !.idx = 1]
            /\ UNCHANGED <<mpc, analysis_red>>
    /\ UNCHANGED <<unitVars, call, args, env, launched, stage, joined, analysis, all_results,
                   handed, tickers, cio, cio_args, analysis_cio, rateHits>>

\* lines 274-295: the prompt of the next ticker
Red_Prompt ==
    /\ mpc = "red_team"
    /\ red.pc = "prompt"
    /\ LET r1 == [red EXCEPT !.prompts = @ + 1]
       IN red' = IF PromptFile("red") \in env.missing
                 THEN RedNext([r1 EXCEPT !.failed = TRUE],
                              Section(tickers[red.idx], FALSE, E_NoFile), Len(tickers))
                 ELSE [r1 EXCEPT !.pc = "calling", !.cl = NewCall]
    /\ RedReturns(red')
    /\ UNCHANGED <<unitVars, call, args, env, launched, stage, joined, analysis, all_results,
                   handed, tickers, cio, cio_args, analysis_cio, rateHits>>

Red_Attempt ==
    /\ mpc = "red_team"
    /\ red.pc = "calling"
    /\ red.cl.pc = "try"
    /\ \E out \in Allowed(PipeOutcomes) :
          /\ red' = RedAfterCall(red,
                       AttemptStep(red.cl, out, PipeTiming.dur, PipeTiming.jitter), tickers)
          /\ rateHits' = Served(out)
    /\ RedReturns(red')
    /\ UNCHANGED <<unitVars, call, args, env, launched, stage, joined, analysis, all_results,
                   handed, tickers, cio, cio_args, analysis_cio>>

Red_Sleep ==
    /\ mpc = "red_team"
    /\ red.pc = "calling"
    /\ red.cl.pc = "sleep"
    /\ red' = RedAfterCall(red, SleepStep(red.cl), tickers)
    /\ RedReturns(red')
    /\ UNCHANGED <<unitVars, call, args, env, launched, stage, joined, analysis, all_results,
                   handed, tickers, cio, cio_args, analysis_cio, rateHits>>

\* ---- execute_portfolio_strategy, run by the main thread ----

\* what main() does once cio' is known: Markdown(analysis_cio)
CioReturns(c) ==
    IF c.pc = "done"
    THEN /\ analysis_cio' = c.result
         /\ mpc' = IF c.result = None THEN "crashed" ELSE "finished"
    ELSE UNCHANGED <<mpc, analysis_cio>>

\* lines 424-432 of main.py and 397-425 of analyst.py
Cio_Start ==
    /\ mpc = "cio"
    /\ cio.pc = "unsubmitted"
    /\ cio_args' = [kind |-> "kwargs",
                    agent1_analysis |-> analysis["alpha"],
                    agent2_analysis |-> analysis["value"],
                    red_team_analysis |-> analysis_red,
                    analysis_google |-> analysis["google"],
                    analysis_x |-> analysis["x"]]
    /\ cio' = GeminiStart(cio, "cio", env)
    /\ CioReturns(cio')
    /\ UNCHANGED <<unitVars, call, args, env, launched, stage, joined, analysis, all_results,
                   handed, tickers, red, analysis_red, rateHits>>

Cio_Attempt ==
    /\ mpc = "cio"
    /\ cio.pc = "calling"
    /\ cio.cl.pc = "try"
    /\ \E out \in Allowed(PipeOutcomes) :
          /\ cio' = GeminiAfterCall(cio, "cio",
                       AttemptStep(cio.cl, out, PipeTiming.dur, PipeTiming.jitter))
          /\ rateHits' = Served(out)
    /\ CioReturns(cio')
    /\ UNCHANGED <<unitVars, call, args, env, launched, stage, joined, analysis, all_results,
                   handed, tickers, red, analysis_red, cio_args>>

Cio_Sleep ==
    /\ mpc = "cio"
    /\ cio.pc = "calling"
    /\ cio.cl.pc = "sleep"
    /\ cio' = GeminiAfterCall(cio, "cio", SleepStep(cio.cl))
    /\ CioReturns(cio')
    /\ UNCHANGED <<unitVars, call, args, env, launched, stage, joined, analysis, all_results,
                   handed, tickers, red, analysis_red, cio_args, rateHits>>

WorkerStep(s) == Worker_Start(s) \/ Worker_Attempt(s) \/ Worker_Sleep(s)
XStep == X_Start \/ X_Call
MainStep ==
    \/ Main_Start \/ Main_Launch \/ Main_Scan \/ Main_Report \/ Main_Council
    \/ Main_Join \/ Main_Display \/ Main_Extract
    \/ Red_Start \/ Red_Prompt \/ Red_Attempt \/ Red_Sleep
    \/ Cio_Start \/ Cio_Attempt \/ Cio_Sleep

Next ==
    \/ MainStep
    \/ \E s \in GeminiStages : WorkerStep(s)
    \/ XStep

Spec == Init /\ [][Next]_vars

\* ------------------------------------------------------------------------
\* Properties of one logical call (SpecClient)
\* ------------------------------------------------------------------------

NCalls == Len(call.calls)
Terminal == call.pc \in {"returned", "raised"}

\* C5: whatever the remote outcomes, one logical call makes at most 4
\* attempts and ends in exactly one of two ways: it returns the text of its
\* one successful attempt (the last one, every earlier one having failed), or
\* it raises the failure of its last attempt.  It never stops anywhere else,
\* and never returns a value after a failed last attempt (the trailing
\* return "" is unreachable).
C5_ReturnsTextOrRaisesLast ==
    /\ NCalls <= 4
    /\ call.pc \in {"try", "sleep", "returned", "raised"}
    /\ call.pc \in {"try", "sleep"} => ENABLED NextClient
    /\ call.pc = "returned" =>
          /\ NCalls >= 1
          /\ call.calls[NCalls].ok
          /\ call.result = call.calls[NCalls].val
          /\ \A i \in 1..(NCalls - 1) : ~call.calls[i].ok
    /\ call.pc = "raised" =>
          /\ NCalls >= 1
          /\ ~call.calls[NCalls].ok
          /\ call.result = call.calls[NCalls].val

\* C5 witness: a call that returned the text of its fourth attempt after
\* three failed ones.
C5_Witness ==
    /\ call.pc = "returned"
    /\ NCalls = 4
    /\ call.result = T_List

\* The failures that carry no rate-limit signal, named one by one.
NoSignalErrors == {E_500, E_42_9}

\* C6: a failure without the rate-limit signal is never retried: it is the
\* last attempt of its call, raised at once with no sleep after it; every
\* attempt that was followed by another one failed with the signal.
C6_OtherFailuresNotRetried ==
    /\ \A i \in 1..NCalls :
          (~call.calls[i].ok /\ call.calls[i].val \in NoSignalErrors) =>
              /\ i = NCalls
              /\ call.pc = "raised"
              /\ call.result = call.calls[i].val
              /\ Len(call.sleeps) = i - 1
              /\ call.delay = 0
    /\ \A i \in 1..(NCalls - 1) :
          ~call.calls[i].ok /\ call.calls[i].val \notin NoSignalErrors

\* C6 witness: a failure without the signal on the third attempt, raised.
C6_Witness ==
    /\ call.pc = "raised"
    /\ NCalls = 3
    /\ call.calls[3].val = E_500

\* The sleep before retry k lies in [lo, lo + 1 s).
DelayInRange(k, d) ==
    /\ k \in 1..3
    /\ k = 1 => (2000 <= d /\ d < 3000)
    /\ k = 2 => (4000 <= d /\ d < 5000)
    /\ k = 3 => (8000 <= d /\ d < 9000)

\* C7: with base_delay = 2 the sleep before retry 1, 2, 3 lies in [2,3),
\* [4,5), [8,9) seconds, and the backoff of one logical call totals less
\* than 17 seconds.
C7_BackoffDelays ==
    /\ \A k \in 1..Len(call.sleeps) : DelayInRange(k, call.sleeps[k])
    /\ call.pc = "sleep" => DelayInRange(Len(call.sleeps) + 1, call.delay)
    /\ SumSeq(call.sleeps) + call.delay < 17000

\* C7 witness: three sleeps with the largest jitter each time.
C7_Witness ==
    /\ Len(call.sleeps) = 3
    /\ SumSeq(call.sleeps) = 14000 + 3 * 999

\* C8: a fourth attempt that fails with the rate-limit signal is terminal:
\* the call raises that failure, having slept three times and no more, and
\* there is no fifth attempt.
C8_FourthRateLimitIsTerminal ==
    /\ NCalls <= 4
    /\ (NCalls = 4 /\ ~call.calls[4].ok /\ call.calls[4].val \in {E_429, E_Quota}) =>
          /\ call.pc = "raised"
          /\ call.result = call.calls[4].val
          /\ Len(call.sleeps) = 3
          /\ call.delay = 0

\* C8 witness: four rate-limited attempts, the last one raised.
C8_Witness ==
    /\ NCalls = 4
    /\ \A i \in 1..4 : call.calls[i] = Err(E_Quota)
    /\ call.pc = "raised"

\* C10: a logical call emits exactly one record, at its terminal outcome,
\* with status "200 OK" when it returns and "ERROR" when it raises, never
\* "PENDING"; before that outcome, whatever the number of rate-limited
\* attempts, nothing is emitted.
C10_OneRecordAtTerminalOutcome ==
    /\ ~Terminal => call.emitted = <<>>
    /\ Terminal =>
          /\ Len(call.emitted) = 1
          /\ call.emitted[1].status = (IF call.pc = "returned" THEN "200 OK" ELSE "ERROR")
    /\ \A i \in 1..Len(call.emitted) : call.emitted[i].status # "PENDING"

\* C10 witness: one record, status ERROR, after two retried attempts.
C10_Witness ==
    /\ call.pc = "raised"
    /\ NCalls = 3
    /\ Len(call.sleeps) = 2
    /\ Len(call.emitted) = 1
    /\ call.emitted[1].status = "ERROR"

\* ------------------------------------------------------------------------
\* Properties of one run of main() (Spec)
\* ------------------------------------------------------------------------

\* main() has returned, exited or ended with an exception
MainEnded ==
    mpc \in {"pm_mode", "fundamentals_mode", "usage_exit", "no_opportunities",
             "scan_saved", "finished", "crashed"}

AllReturned == \A s \in StageIds : stage[s].pc = "done"
SomeFailed == \E s \in StageIds : stage[s].pc = "done" /\ stage[s].failed

S_Red == <<"[", "r", "e", "d", "]">>
\* a text of the form [red]...[/red]
IsErrorString(x) ==
    /\ x # None
    /\ Len(x) >= Len(S_Red) + Len(S_EndRed)
    /\ SubSeq(x, 1, Len(S_Red)) = S_Red
    /\ SubSeq(x, Len(x) - Len(S_EndRed) + 1, Len(x)) = S_EndRed

C2_AllFourJoined ==
    /\ \A s \in StageIds : stage[s].runs <= 1 /\ ~stage[s].raised
    /\ mpc = "join" =>
          /\ joined < Len(JoinOrder)
          /\ ENABLED Next
          /\ \A s \in GeminiStages :
                stage[s].pc \in {"queued", "calling"} => ENABLED WorkerStep(s)
          /\ stage["x"].pc \in {"queued", "calling"} => ENABLED XStep
    /\ mpc \in {"display", "extract", "red_team", "cio", "finished", "crashed"} =>
          /\ joined = Len(JoinOrder)
          /\ \A s \in StageIds :
                /\ stage[s].runs = 1
                /\ stage[s].pc = "done"
                /\ analysis[s] = stage[s].result

\* C2 witness: the join has collected four results of which three are
\* failures and one is a text.
C2_Witness ==
    /\ joined = 4
    /\ stage["alpha"].failed
    /\ stage["value"].failed
    /\ stage["x"].failed
    /\ ~stage["google"].failed
    /\ analysis["google"] = T_List
    /\ IsErrorString(analysis["alpha"])

\* C3: the join takes the result of a stage only when the stage has
\* returned; the symbol extraction and the vetting start only when all four
\* analysis stages have returned and been joined; the synthesis stage starts
\* only when the vetting has returned (or was replaced by its placeholder,
\* no symbol having been found); a submitted stage that has not finished can
\* take its next step in every state, whatever main() and the other stages
\* are doing.
C3_DependencyOrder ==
    /\ \A i \in 1..joined : stage[JoinOrder[i]].pc = "done"
    /\ (mpc \in {"extract", "red_team", "cio"} \/ handed # <<>> \/ red.runs > 0) =>
          AllReturned /\ joined = Len(JoinOrder)
    /\ (red.runs > 0) => handed # <<>> /\ tickers # <<>>
    /\ (cio.runs > 0 \/ mpc = "cio") =>
          /\ handed # <<>>
          /\ red.pc \in {"unsubmitted", "done"}
          /\ red.pc = "unsubmitted" <=> tickers = <<>>
          /\ analysis_red # NoText
    /\ \A s \in {"alpha", "value"} : stage[s].pc # "unsubmitted" => mpc \notin {"start", "launch", "scan", "report", "council"}
    /\ \A s \in GeminiStages :
          stage[s].pc \in {"queued", "calling"} => ENABLED WorkerStep(s)
    /\ stage["x"].pc \in {"queued", "calling"} => ENABLED XStep

\* C3 witness: value has returned and alpha is calling while google, which
\* was submitted first, has not started and x is in its remote call.
C3_Witness ==
    /\ mpc = "join"
    /\ stage["value"].pc = "done"
    /\ stage["alpha"].pc = "calling"
    /\ stage["google"].pc = "queued"
    /\ stage["x"].pc = "calling"

\* C4, as stated: a run that enabled the AI stages and has ended has joined
\* the independent stages it launched and has executed the dependent
\* stages, the symbol extraction and the synthesis stage exactly once, also
\* when its scan returned snapshots.
C4_CouncilRunsOnce ==
    (args.ai /\ launched /\ MainEnded) =>
        /\ joined = Len(JoinOrder)
        /\ \A s \in StageIds : stage[s].runs = 1
        /\ handed # <<>>
        /\ cio.runs = 1

GeminiKeyError(fr) ==
    /\ fr.prompts = 0
    /\ fr.cl = IdleCall
    /\ fr.runs <= 1
    /\ fr.runs = 1 => (fr.pc = "done" /\ fr.failed)

\* C9: without GEMINI_API_KEY no Gemini stage (alpha, value, google,
\* vetting, synthesis) loads a prompt, calls the service, retries or sleeps,
\* and each one that runs ends at once with the credential error; the same
\* holds of the X stage without XAI_API_KEY.
C9_MissingCredentialFailsFast ==
    /\ ~env.GEMINI_API_KEY =>
          /\ \A s \in GeminiStages :
                /\ GeminiKeyError(stage[s])
                /\ stage[s].runs = 1 => stage[s].result = S_GeminiKeyError
          /\ GeminiKeyError(cio)
          /\ cio.runs = 1 => (cio.result = S_GeminiKeyError /\ analysis_cio = S_GeminiKeyError)
          /\ GeminiKeyError(red)
          /\ red.final_report = <<>>
          /\ red.runs = 1 => analysis_red = Text(S_GeminiKeyError)
          /\ rateHits = 0 \/ stage["x"].cl.calls # <<>>
    /\ ~env.XAI_API_KEY =>
          /\ GeminiKeyError(stage["x"])
          /\ stage["x"].runs = 1 => stage["x"].result = S_XaiKeyError

\* C9 witness: no Gemini key; the X stage produced a symbol, so the vetting
\* and the synthesis stage were called and both failed fast.
C9_Witness ==
    /\ ~env.GEMINI_API_KEY
    /\ env.XAI_API_KEY
    /\ mpc = "finished"
    /\ stage["alpha"].runs = 1
    /\ red.runs = 1
    /\ cio.runs = 1
    /\ tickers # <<>>

\* ------------------------------------------------------------------------
\* The scan engine: market_data, technicals, scanner
\* ------------------------------------------------------------------------

\* a float as a ratio of integers; den = 0 stands for NaN (num = 0) and for
\* +inf (num = 1)
Q(num, den) == [num |-> num, den |-> den]
NaN == Q(0, 0)
Inf == Q(1, 0)
IsNaN(a) == a.den = 0 /\ a.num = 0
\* a / b of two non-negative floats: x/0 is inf, 0/0 is NaN
Div(a, b) ==
    IF IsNaN(a) \/ IsNaN(b) THEN NaN
    ELSE IF a.den = 0 THEN (IF b.den = 0 THEN NaN ELSE Inf)
    ELSE IF b.den = 0 THEN Q(0, 1)
    ELSE IF b.num = 0 THEN (IF a.num = 0 THEN NaN ELSE Inf)
    ELSE Q(a.num * b.den, a.den * b.num)
\* a > b; every comparison with NaN is False
Gt(a, b) ==
    /\ ~IsNaN(a)
    /\ ~IsNaN(b)
    /\ IF a.den = 0 THEN b.den # 0
       ELSE b.den # 0 /\ a.num * b.den > b.num * a.den
Ge(a, b) ==
    /\ ~IsNaN(a)
    /\ ~IsNaN(b)
    /\ IF a.den = 0 THEN TRUE
       ELSE b.den # 0 /\ a.num * b.den >= b.num * a.den
\* a * (p / 100)
Pct(a, p) == IF a.den = 0 THEN a ELSE Q(a.num * p, a.den * 100)
\* a - b of two floats that are finite or NaN
Sub(a, b) ==
    IF a.den = 0 \/ b.den = 0 THEN NaN
    ELSE Q(a.num * b.den - b.num * a.den, a.den * b.den)

MinHistory == 50
CeilingWindow == 252
SmaLongWindow == 50
BreakoutPct == 98
LiquidityFloor == 1000000
MinScore == 20

\* rolling(window).mean()/max() of the last row: NaN until the window is full
Rolling_Partial(n, window, value) == IF n >= 1 THEN Q(value, 1) ELSE NaN
Rolling(n, window, value) == IF n >= window THEN Q(value, 1) ELSE NaN

\* calculate_technicals, the last row of the frame it returns.  h describes
\* the history: n rows, the last close and volume, the maximum high of the
\* last 252 rows, the means of the last 20 and 50 closes, of the last 20
\* volumes, and of the last 14 gains and losses.
calculate_technicals(h) ==
    LET avg == Rolling(h.n, 20, h.avg_volume_20)
        rs == Div(Q(h.gain, 1), Q(h.loss, 1))
        one_plus == IF rs.den = 0 THEN rs ELSE Q(rs.num + rs.den, rs.den)
        frac == Div(Q(100, 1), one_plus)
    IN [Close |-> Q(h.close, 1),
        Volume |-> Q(h.volume, 1),
        High52 |-> Rolling(h.n, CeilingWindow, h.high_252),
        SMA_20 |-> Rolling(h.n, 20, h.sma_20),
        SMA_50 |-> Rolling(h.n, SmaLongWindow, h.sma_50),
        RVOL |-> Div(Q(h.volume, 1), avg),
        \* RSI = 100 - 100 / (1 + rs)
        RSI |-> IF IsNaN(frac) THEN NaN
                ELSE Q(100 * frac.den - frac.num, frac.den),
        BB_Width |-> Q(h.bb_width, 100)]

Award(cond, points) == IF cond THEN points ELSE 0

\* analyze_breakout: the score of the last row (the variant also awards a
\* narrow Bollinger band)
Score_Bollinger(latest) ==
    Award(Ge(latest.Close, Pct(latest.High52, BreakoutPct)), 40)
    + Award(Gt(latest.RVOL, Q(15, 10)), 20)
    + Award(Gt(latest.RSI, Q(60, 1)), 10)
    + Award(Gt(latest.Close, latest.SMA_20), 10)
    + Award(Gt(latest.Close, latest.SMA_50), 10)
    + Award(Gt(latest.Volume, Q(LiquidityFloor, 1)), 10)
    + Award(Gt(Q(10, 100), latest.BB_Width), 10)
Score(latest) ==
    Award(Ge(latest.Close, Pct(latest.High52, BreakoutPct)), 40)
    + Award(Gt(latest.RVOL, Q(15, 10)), 20)
    + Award(Gt(latest.RSI, Q(60, 1)), 10)
    + Award(Gt(latest.Close, latest.SMA_20), 10)
    + Award(Gt(latest.Close, latest.SMA_50), 10)
    + Award(Gt(latest.Volume, Q(LiquidityFloor, 1)), 10)

\* has_momentum is the local flag of line 78; it is not part of the score
analyze_breakout(latest) ==
    [price |-> latest.Close,
     \* dist_to_high * 100, dist_to_high = (Close - High) / High; the ceiling
     \* is positive or NaN
     pct_from_high |->
         LET d == Sub(latest.Close, latest.High52)
         IN IF IsNaN(d) THEN NaN
            ELSE Q(100 * d.num * latest.High52.den, d.den * latest.High52.num),
     is_breaking_out |-> Ge(latest.Close, Pct(latest.High52, BreakoutPct)),
     has_momentum |-> Gt(latest.RSI, Q(55, 1)),
     rvol |-> latest.RVOL,
     rsi |-> latest.RSI,
     score |-> Score(latest)]

\* ---- the histories and failures explored ----

History(n, close, high, sma20, sma50, volume, avgvol, gain, loss, bb) ==
    [n |-> n, close |-> close, high_252 |-> high, sma_20 |-> sma20,
     sma_50 |-> sma50, volume |-> volume, avg_volume_20 |-> avgvol,
     gain |-> gain, loss |-> loss, bb_width |-> bb]

\* every award: 100
H_Hot == History(300, 100, 100, 90, 80, 3000000, 1000000, 3, 1, 5)
\* the same rows, one short of the minimum history
H_Short == [H_Hot EXCEPT !.n = MinHistory - 1]
H_Empty == [H_Hot EXCEPT !.n = 0]
\* relative volume 2 only: 20
H_Volume == History(MinHistory, 100, 120, 100, 100, 1000000, 500000, 1, 1, 30)
\* above both averages, RSI 57 (momentum flag, no award), narrow band: 20
H_Trend == History(60, 100, 120, 90, 90, 100, 100, 57, 43, 5)
\* above SMA-20 only, relative volume exactly 1.5, RSI exactly 60: 10
H_Dull == History(MinHistory, 100, 100, 90, 110, 150, 100, 3, 2, 5)
\* close exactly 98% of the ceiling, no loss in 14 rows (RSI 100): 50
H_Ceiling == History(CeilingWindow, 98, 100, 98, 98, 0, 0, 2, 0, 30)
\* the rows of H_Hot, one short of a full year; high_252 is the highest high
\* of the rows there are: 60
H_Young == [H_Hot EXCEPT !.n = CeilingWindow - 1]

Feed(fetch, compute, h) == [fetch |-> fetch, compute |-> compute, h |-> h]
FeedList ==
    <<Feed("ok", "ok", H_Hot), Feed("ok", "ok", H_Short), Feed("ok", "ok", H_Empty),
      Feed("ok", "ok", H_Volume), Feed("ok", "ok", H_Trend), Feed("ok", "ok", H_Dull),
      Feed("ok", "ok", H_Ceiling), Feed("ok", "ok", H_Young),
      Feed("raises", "ok", H_Hot), Feed("ok", "raises", H_Hot)>>

Universe == {"X", "Y", "Z"}
\* the workers are interchangeable and complete in every order, so that it
\* is enough to hand the feeds to X, Y, Z in the order of FeedList
FeedAssignments ==
    {[t \in Universe |-> FeedList[IF t = "X" THEN i ELSE IF t = "Y" THEN j ELSE k]] :
        <<i, j, k>> \in {c \in (1..Len(FeedList)) \X (1..Len(FeedList)) \X (1..Len(FeedList)) :
                            c[1] <= c[2] /\ c[2] <= c[3]}}
ScanKinds == {"us", "intl", "etf"}
\* ThreadPoolExecutor(max_workers=...) of each scanner
ScanWorkers(kind) == IF kind = "intl" THEN 10 ELSE 20

\* ---- market_data.get_market_data ----

\* the None that get_market_data returns in place of a frame
NoFrame == [n |-> 0, none |-> TRUE]
\* the frame, or None: the fetch failed, the frame is empty or too short
get_market_data_NoMinimum(f) ==
    IF f.fetch = "raises" THEN NoFrame
    ELSE IF f.h.n = 0 THEN NoFrame
    ELSE f.h
get_market_data(f) ==
    IF f.fetch = "raises" THEN NoFrame
    ELSE IF f.h.n = 0 THEN NoFrame
    ELSE IF f.h.n < MinHistory THEN NoFrame
    ELSE f.h

\* ---- scanner.analyze_ticker ----

\* the filter on the score, and the snapshot returned
Keeps_Strict(an) == ~(an.score <= MinScore)
Keeps(an) == ~(an.score < MinScore)

Category(kind, ticker) ==
    IF kind = "us" THEN "Stock"
    ELSE IF kind = "intl" THEN "International"
    ELSE "Other"

Snapshot(kind, ticker, an) ==
    [ticker |-> ticker, score |-> an.score, category |-> Category(kind, ticker),
     has_momentum |-> an.has_momentum, is_breaking_out |-> an.is_breaking_out,
     pct_from_high |-> an.pct_from_high]

\* a future: what the worker left in it
Pending == [state |-> "queued"]
Running(df) == [state |-> "running", df |-> df]
DoneNone == [state |-> "done", raised |-> FALSE, data |-> <<>>]
DoneRaised == [state |-> "done", raised |-> TRUE, data |-> <<>>]
DoneWith(snap) == [state |-> "done", raised |-> FALSE, data |-> <<snap>>]

\* lines 74-83 of analyze_ticker, on a frame that was returned
AnalyzeFrame(kind, ticker, f) ==
    IF f.compute = "raises" THEN DoneRaised
    ELSE LET an == analyze_breakout(calculate_technicals(f.h))
         IN IF Keeps(an) THEN DoneWith(Snapshot(kind, ticker, an))
            ELSE DoneNone

\* analyze_ticker is a function of the scanner, the ticker and the frame: its
\* values on the frames of FeedList, computed once
AnalyzeFrameOf ==
    [kind \in ScanKinds, ticker \in Universe,
     f \in {FeedList[i] : i \in 1..Len(FeedList)} |-> AnalyzeFrame(kind, ticker, f)]

\* ---- scanner.scan_tickers / scan_etfs ----

\* the state after executor.submit of every ticker (line 44)
NewScan(kind, feed) ==
    [pc |-> "submitted", kind |-> kind, feed |-> feed,
     fut |-> [t \in Universe |-> Pending],
     done_order |-> <<>>,   \* the tickers in the order their futures completed
     yield_q |-> <<>>,      \* the futures as_completed yields, in order
     early |-> 0,           \* how many were complete when as_completed was called
     taken |-> 0,           \* how many of them the for loop has taken
     computed |-> {},       \* the tickers whose indicators were computed
     results |-> <<>>,
     returned |-> <<>>]

DoneSet(sc) == {t \in Universe : sc.fut[t].state = "done"}

\* a variant in which the worker itself appends its snapshot to the list
Complete_Appends(sc, t, f) ==
    [sc EXCEPT !.fut[t] = f,
               !.done_order = Append(@, t),
               !.yield_q = IF sc.pc = "collecting" THEN Append(@, t) ELSE @,
               !.results = @ \o f.data]
\* a future completes: the worker leaves its value in the future and writes
\* nothing else; as_completed, once called, yields it after the ones that
\* completed before it
Complete(sc, t, f) ==
    [sc EXCEPT !.fut[t] = f,
               !.done_order = Append(@, t),
               !.yield_q = IF sc.pc = "collecting" THEN Append(@, t) ELSE @]

\* one pass of the for loop (lines 56-62) on the future of ticker t
CollectOne_Abort(sc, t) ==
    LET f == sc.fut[t]
    IN IF f.raised
       THEN [sc EXCEPT !.pc = "raised", !.taken = @ + 1]
       ELSE [sc EXCEPT !.taken = @ + 1, !.results = @ \o f.data]
CollectOne(sc, t) ==
    LET f == sc.fut[t]
    IN IF f.raised
       THEN [sc EXCEPT !.taken = @ + 1]
       ELSE [sc EXCEPT !.taken = @ + 1, !.results = @ \o f.data]

ScanIdle == PipeIdle /\ call = IdleCall /\ ext = [pc |-> "idle"] /\ fuse = [pc |-> "idle"]
scanOthers == <<clientVars, pipeVars, ext, fuse>>

InitScan ==
    /\ ScanIdle
    /\ \E kind \in ScanKinds, feed \in FeedAssignments :
          scan = NewScan(kind, feed)

\* a pool thread takes the ticker and calls get_market_data; without a frame
\* analyze_ticker returns None
Scan_Fetch(t) ==
    /\ scan.pc \in {"submitted", "collecting"}
    /\ scan.fut[t].state = "queued"
    /\ Cardinality({u \in Universe : scan.fut[u].state = "running"}) < ScanWorkers(scan.kind)
    /\ LET df == get_market_data(scan.feed[t])
       IN scan' = IF df = NoFrame THEN Complete(scan, t, DoneNone)
                  ELSE [scan EXCEPT !.fut[t] = Running(df)]
    /\ UNCHANGED scanOthers

\* calculate_technicals, analyze_breakout and the filter on the score
Scan_Compute(t) ==
    /\ scan.pc \in {"submitted", "collecting"}
    /\ scan.fut[t].state = "running"
    /\ scan' = [Complete(scan, t,
                         AnalyzeFrameOf[scan.kind, t,
                                        [scan.feed[t] EXCEPT !.h = scan.fut[t].df]])
                  EXCEPT !.computed = @ \cup {t}]
    /\ UNCHANGED scanOthers

\* as_completed is called: the futures already complete are yielded first,
\* in the order of a set
Scan_AsCompleted ==
    /\ scan.pc = "submitted"
    /\ \E first \in Orderings(DoneSet(scan)) :
          scan' = [scan EXCEPT !.pc = "collecting", !.yield_q = first,
                                  !.early = Len(first)]
    /\ UNCHANGED scanOthers

Scan_Collect ==
    /\ scan.pc = "collecting"
    /\ scan.taken < Len(scan.yield_q)
    /\ scan' = CollectOne(scan, scan.yield_q[scan.taken + 1])
    /\ UNCHANGED scanOthers

\* every future was taken; the results are sorted and returned
Scan_Return ==
    /\ scan.pc = "collecting"
    /\ scan.taken = Cardinality(Universe)
    /\ scan' = [scan EXCEPT !.pc = "returned",
                            !.results = SortByScoreDesc(@),
                            !.returned = SortByScoreDesc(scan.results)]
    /\ UNCHANGED scanOthers

NextScan ==
    \/ \E t \in Universe : Scan_Fetch(t)
    \/ \E t \in Universe : Scan_Compute(t)
    \/ Scan_AsCompleted
    \/ Scan_Collect
    \/ Scan_Return

SpecScan == InitScan /\ [][NextScan]_vars

\* ------------------------------------------------------------------------
\* Properties of one scan (SpecScan)
\* ------------------------------------------------------------------------

ScanReturned == scan.pc = "returned"
ReturnedTickers == {scan.returned[i].ticker : i \in 1..Len(scan.returned)}
FedWith(t, h) == scan.feed[t] = Feed("ok", "ok", h)
\* the place of x in the sequence q, 0 when absent
RECURSIVE IndexOf(_, _)
IndexOf(q, x) ==
    IF q = <<>> THEN 0
    ELSE IF q[Len(q)] = x THEN Len(q)
    ELSE IndexOf(SubSeq(q, 1, Len(q) - 1), x)

C12_TiesInCompletionOrder ==
    ScanReturned =>
        \A i, j \in 1..Len(scan.returned) :
            i < j =>
                /\ scan.returned[i].score >= scan.returned[j].score
                /\ scan.returned[i].score = scan.returned[j].score =>
                      IndexOf(scan.done_order, scan.returned[i].ticker)
                          < IndexOf(scan.done_order, scan.returned[j].ticker)

\* C12, amended: the returned sequence is the stable descending sort of the
\* snapshots in the order in which the for loop received their futures from
\* as_completed: it holds exactly the collected snapshots, scores are
\* non-increasing, and two snapshots of equal score stand in the order in
\* which they were received.  That order is the completion order for the
\* futures that complete after as_completed was called, and these come after
\* all the futures that were complete by then.
C12_StableSortOfReceived ==
    /\ \A i, j \in 1..Len(scan.yield_q) :
          (scan.early < i /\ i < j) =>
              IndexOf(scan.done_order, scan.yield_q[i])
                  < IndexOf(scan.done_order, scan.yield_q[j])
    /\ \A i \in 1..Len(scan.yield_q) :
          i <= scan.early <=> IndexOf(scan.done_order, scan.yield_q[i]) <= scan.early
    /\ ScanReturned =>
          /\ Len(scan.returned) = Cardinality(ReturnedTickers)
          /\ ReturnedTickers = {t \in Universe : scan.fut[t].data # <<>>}
          /\ \A i \in 1..Len(scan.returned) :
                scan.returned[i] = scan.fut[scan.returned[i].ticker].data[1]
          /\ \A i, j \in 1..Len(scan.returned) :
                i < j =>
                    /\ scan.returned[i].score >= scan.returned[j].score
                    /\ scan.returned[i].score = scan.returned[j].score =>
                          IndexOf(scan.yield_q, scan.returned[i].ticker)
                              < IndexOf(scan.yield_q, scan.returned[j].ticker)

\* C12 witness: three snapshots returned, the first of a higher score than
\* the two others, which tie; the tied ones completed after as_completed was
\* called, and the one of the higher score completed last.
C12_Witness ==
    /\ ScanReturned
    /\ Len(scan.returned) = 3
    /\ scan.returned[1].score > scan.returned[2].score
    /\ scan.returned[2].score = scan.returned[3].score
    /\ scan.early = 0
    /\ scan.done_order[3] = scan.returned[1].ticker

\* C13: a symbol whose history is empty or shorter than 50 rows never has
\* its indicators computed, its worker returns None and it is not in the
\* result.
C13_ShortHistoryExcluded ==
    \A t \in Universe :
        (scan.feed[t].fetch = "ok" /\ scan.feed[t].h.n < 50) =>
            /\ t \notin scan.computed
            /\ scan.fut[t].state # "running"
            /\ scan.fut[t].state = "done" => scan.fut[t] = DoneNone
            /\ \A i \in 1..Len(scan.results) : scan.results[i].ticker # t
            /\ t \notin ReturnedTickers

\* C13 witness: a scan returned one symbol while a symbol with 49 rows and a
\* symbol with no row, whose rows would score 100, were left out.
C13_Witness ==
    /\ ScanReturned
    /\ \E t, u \in Universe : FedWith(t, H_Short) /\ FedWith(u, H_Empty)
    /\ Len(scan.returned) = 1

\* the awards of section 4.3 stated on the rows themselves, in integers; an
\* indicator whose window is not full is undefined and earns nothing
AwardBreakout(h) ==
    Award(h.n >= 252 /\ 100 * h.close >= 98 * h.high_252, 40)
AwardRelativeVolume(h) ==
    Award(h.n >= 20 /\ h.volume > 0 /\ 10 * h.volume > 15 * h.avg_volume_20, 20)
AwardRsi(h) ==
    Award(h.gain > 0 /\ 100 * h.gain > 60 * (h.gain + h.loss), 10)
AwardSma20(h) == Award(h.n >= 20 /\ h.close > h.sma_20, 10)
AwardSma50(h) == Award(h.n >= 50 /\ h.close > h.sma_50, 10)
AwardLiquidity(h) == Award(h.volume > 1000000, 10)
SumOfAwards(h) ==
    AwardBreakout(h) + AwardRelativeVolume(h) + AwardRsi(h) + AwardSma20(h)
    + AwardSma50(h) + AwardLiquidity(h)

Qualifies(t) ==
    /\ scan.feed[t].fetch = "ok"
    /\ scan.feed[t].compute = "ok"
    /\ scan.feed[t].h.n >= 50
    /\ SumOfAwards(scan.feed[t].h) >= 20

\* C15: the scan never ends with an exception; when it returns, every
\* future was taken, every symbol was processed and the result holds exactly
\* the symbols that qualify.  A symbol whose fetch or computation failed is
\* absent.
C15_FailureIsPerSymbol ==
    /\ scan.pc \in {"submitted", "collecting", "returned"}
    /\ scan.pc = "collecting" =>
          \/ scan.taken < Len(scan.yield_q)
          \/ \E t \in Universe : scan.fut[t].state # "done"
          \/ ENABLED Scan_Return
    /\ ScanReturned =>
          /\ scan.taken = Cardinality(Universe)
          /\ \A t \in Universe : scan.fut[t].state = "done"
          /\ \A t \in Universe : t \in ReturnedTickers <=> Qualifies(t)
          /\ \A t \in Universe :
                (scan.feed[t].fetch = "raises" \/ scan.feed[t].compute = "raises") =>
                    t \notin ReturnedTickers

\* C15 witness: the computation of the first future taken raised, the fetch
\* of another symbol failed, and the third symbol was returned.
C15_Witness ==
    /\ ScanReturned
    /\ scan.fut[scan.yield_q[1]].raised
    /\ \E t \in Universe : scan.feed[t].fetch = "raises"
    /\ Len(scan.returned) = 1
    /\ scan.returned[1].ticker = scan.yield_q[3]

\* ------------------------------------------------------------------------
\* SpecExtract: one call of extract_tickers_from_analysis, statement by
\* statement, on the texts a stage can return and on composed texts
\* ------------------------------------------------------------------------

T_Example ==
    <<"1", ".", " ", "[", "A", "A", "P", "L", "]", "\n", "2", ".", " ", "M",
      "S", "F", "T", "\n", "T", "H", "E", " ", "L", "O", "N", "G", ":", " ",
      "T", "S", "L", "A", "\n", "$", "N", "V", "D", "A">>
T_And == <<"1", ".", " ", "A", "N", "D">>
T_Twice == <<"1", ".", " ", "A", "B", "\n", "$", "A", "B">>

\* the openings that one of the three patterns accepts before a token
P_Item == <<"1", ".", " ">>
P_Bold == <<"*", "*", "1", ".", " ", "[">>
P_Paren == <<"(", "1", ".", ")", " ">>
P_Long == <<"T", "H", "E", " ", "L", "O", "N", "G", ":", " ">>
P_Moonshot == <<"T", "H", "E", " ", "M", "O", "O", "N", "S", "H", "O", "T", " ">>
P_Cash == <<"$">>
P_SecondLine == <<"a", "\n", "2", ".", " ">>
\* and two that none accepts: lower case, and a number inside a line
P_LowerLong == <<"t", "h", "e", " ", "l", "o", "n", "g", ":", " ">>
P_MidLine == <<"x", "1", ".", " ">>
AcceptedOpenings == {P_Item, P_Bold, P_Paren, P_Long, P_Moonshot, P_Cash, P_SecondLine}
Openings == AcceptedOpenings \cup {P_LowerLong, P_MidLine}

K_AB == <<"A", "B">>
K_A == <<"A">>
K_Six == <<"A", "B", "C", "D", "E", "F">>
K_Seven == <<"A", "B", "C", "D", "E", "F", "G">>
K_AND == <<"A", "N", "D">>
K_Lower == <<"a", "b">>
K_Digit == <<"X", "1">>
Tokens == {K_AB, K_A, K_Six, K_Seven, K_AND, K_Lower, K_Digit}

\* what a stage can return: a text, a text without symbol, an error string,
\* the empty text, None
StageReturns ==
    {T_List, T_Cash, T_Empty, None, S_GeminiKeyError,
     ErrorString(S_AnalysisFailed, E_429), ErrorString(S_PromptLoadError, E_NoFile)}

ExtractInputs ==
    StageReturns \cup {T_Example, T_And, T_Twice}
    \cup {o \o k : o \in Openings, k \in Tokens}

NewExtract(text) ==
    [pc |-> "standard", text |-> text, tickers |-> <<>>, out |-> {}]

\* one re.findall and tickers.extend (lines 237-248); re.findall raises
\* TypeError when text is None
FindStep(e, p, next) ==
    IF e.text = None THEN [e EXCEPT !.pc = "raised"]
    ELSE [e EXCEPT !.pc = next, !.tickers = @ \o FindAll(p, e.text, 1)]

\* lines 252-259
FilterStep(e) == [e EXCEPT !.pc = "returned", !.out = CleanTickers(e.tickers)]

extractOthers == <<clientVars, pipeVars, scan, fuse>>

InitExtract ==
    /\ PipeIdle
    /\ call = IdleCall
    /\ scan = [pc |-> "idle"]
    /\ fuse = [pc |-> "idle"]
    /\ \E text \in ExtractInputs : ext = NewExtract(text)

Ext_Standard ==
    /\ ext.pc = "standard"
    /\ ext' = FindStep(ext, 1, "long")
    /\ UNCHANGED extractOthers

Ext_Long ==
    /\ ext.pc = "long"
    /\ ext' = FindStep(ext, 2, "cash")
    /\ UNCHANGED extractOthers

Ext_Cash ==
    /\ ext.pc = "cash"
    /\ ext' = FindStep(ext, 3, "filter")
    /\ UNCHANGED extractOthers

Ext_Filter ==
    /\ ext.pc = "filter"
    /\ ext' = FilterStep(ext)
    /\ UNCHANGED extractOthers

NextExtract == Ext_Standard \/ Ext_Long \/ Ext_Cash \/ Ext_Filter

SpecExtract == InitExtract /\ [][NextExtract]_vars

\* ------------------------------------------------------------------------
\* Properties of the symbol extractor (SpecExtract)
\* ------------------------------------------------------------------------

K_AAPL == <<"A", "A", "P", "L">>
K_MSFT == <<"M", "S", "F", "T">>
K_TSLA == <<"T", "S", "L", "A">>
K_NVDA == <<"N", "V", "D", "A">>

\* what an opening followed by a token yields: the token when the opening
\* is accepted and the token is 2 to 6 capitals and no stop word, its first
\* six letters when it is longer
ExpectedSymbols(o, k) ==
    IF o \notin AcceptedOpenings THEN {}
    ELSE IF k \in {K_AB, K_Six} THEN {k}
    ELSE IF k = K_Seven THEN {K_Six}
    ELSE {}

\* C16: the set returned holds exactly the tokens the three findall calls
\* captured, less the stop words: each is 2 to 6 capitals; the example text
\* yields AAPL, MSFT, TSLA, NVDA; "1. AND" yields nothing; a token found by
\* two heuristics comes once; an opening that no pattern accepts (lower-case
\* call-out, number inside a line) yields nothing.
C16_ExtractsCapturedTokens ==
    ext.pc = "returned" =>
        /\ ext.out = {ext.tickers[i] : i \in 1..Len(ext.tickers)} \ StopWords
        /\ \A sym \in ext.out :
              /\ Len(sym) \in 2..6
              /\ \A i \in 1..Len(sym) : sym[i] \in Upper
        /\ ext.text = T_Example => ext.out = {K_AAPL, K_MSFT, K_TSLA, K_NVDA}
        /\ ext.text = T_And => ext.out = {}
        /\ ext.text = T_Twice => (ext.out = {K_AB} /\ Len(ext.tickers) = 2)
        /\ \A o \in Openings, k \in Tokens :
              ext.text = o \o k => ext.out = ExpectedSymbols(o, k)

\* C16 witness: the example text was processed and four symbols came out of
\* four captures, the first two by the numbered-list pattern.
C16_Witness ==
    /\ ext.pc = "returned"
    /\ ext.text = T_Example
    /\ ext.tickers = <<K_AAPL, K_MSFT, K_TSLA, K_NVDA>>
    /\ Cardinality(ext.out) = 4

\* C17, as stated: on every value a stage can return the extractor ends by
\* returning a set, never by raising, and a value without symbol (error
\* string, empty text, no text) yields the empty set.
C17_NeverRaises ==
    /\ ext.pc # "raised"
    /\ (ext.pc = "returned" /\ ext.text \in StageReturns \ {T_List, T_Cash}) =>
          ext.out = {}

\* ------------------------------------------------------------------------
\* The context filter of execute_portfolio_strategy (lines 403-413)
\* ------------------------------------------------------------------------

S_Header ==
    <<"#", "#", "#", " ", "P", "R", "E", "-", "F", "I", "L", "T", "E", "R",
      "E", "D", " ", "D", "A", "T", "A", " ", "H", "I", "G", "H", "L", "I",
      "G", "H", "T", "S", "\n", "\n">>
S_HIT == <<"H", "I", "T">>
S_MATCH == <<"M", "A", "T", "C", "H">>
S_Score == <<"S", "c", "o", "r", "e">>
S_Pipe == <<"|">>
S_Hash == <<"#">>
MinFilteredLen == 500
MaxContextLen == 20000

\* a line of the report: its first characters, followed by pad characters
\* that are no marker; the report is its lines, each ended by a newline
Line(text, pad) == [text |-> text, pad |-> pad]
LineLen(l) == Len(l.text) + l.pad
RECURSIVE TextLen(_)
TextLen(lines) ==
    IF lines = <<>> THEN 0
    ELSE LineLen(Head(lines)) + 1 + TextLen(Tail(lines))

\* line 408
IsSignal(l) ==
    \/ Contains(l.text, S_HIT)
    \/ Contains(l.text, S_MATCH)
    \/ Contains(l.text, S_Score)
    \/ Contains(l.text, S_Pipe)
    \/ Contains(l.text, S_Hash)

\* lines 407-409: the lines kept, in order
RECURSIVE SignalLines(_)
SignalLines(lines) ==
    IF lines = <<>> THEN <<>>
    ELSE (IF IsSignal(Head(lines)) THEN <<Head(lines)>> ELSE <<>>)
         \o SignalLines(Tail(lines))

\* len(clean_report_content) after the loop: the header and every kept line
\* with its newline
FilteredLen_MatchedOnly(kept) == TextLen(kept) - Len(kept)
FilteredLen(kept) == Len(S_Header) + TextLen(kept)

\* lines 412-413
TooShort(n) == n < MinFilteredLen

\* report_content[:20000]
Truncated(report) ==
    [path |-> "fallback", len |-> Min(TextLen(report), MaxContextLen), lines |-> report]
Filtered(kept) ==
    [path |-> "filter", len |-> FilteredLen(kept), lines |-> kept]

\* ---- the reports explored ----
LineChoices ==
    {Line(S_HIT, 0), Line(S_MATCH, 0), Line(S_Score, 0),
     Line(<<"a", "|", "b">>, 461), Line(<<"a", "|", "b">>, 462),
     Line(<<"#", " ", "T">>, 0), Line(<<"h", "i", "t">>, 0),
     Line(<<"h", "i", "t">>, MaxContextLen), Line(<<"s", "c", "o", "r", "e">>, 461),
     Line(<<"a", "|", "b">>, MaxContextLen)}
MaxLines == 3
Reports == UNION {[1..n -> LineChoices] : n \in 0..MaxLines}

NewFuse(report) ==
    [pc |-> "filter", report_content |-> report, kept |-> <<>>,
     clean_report_content |-> Filtered(<<>>)]

fuseOthers == <<clientVars, pipeVars, scan, ext>>

InitFuse ==
    /\ PipeIdle
    /\ call = IdleCall
    /\ scan = [pc |-> "idle"]
    /\ ext = [pc |-> "idle"]
    /\ \E report \in Reports : fuse = NewFuse(report)

\* the for loop over report_content.splitlines()
Fuse_Filter ==
    /\ fuse.pc = "filter"
    /\ LET kept == SignalLines(fuse.report_content)
       IN fuse' = [fuse EXCEPT !.pc = "check", !.kept = kept,
                               !.clean_report_content = Filtered(kept)]
    /\ UNCHANGED fuseOthers

\* the fallback; clean_report_content then goes into the prompt
Fuse_Check ==
    /\ fuse.pc = "check"
    /\ fuse' = [fuse EXCEPT
                  !.pc = "done",
                  !.clean_report_content =
                      IF TooShort(fuse.clean_report_content.len)
                      THEN Truncated(fuse.report_content) ELSE @]
    /\ UNCHANGED fuseOthers

NextFuse == Fuse_Filter \/ Fuse_Check

SpecFuse == InitFuse /\ [][NextFuse]_vars

\* ------------------------------------------------------------------------
\* Properties of the context filter (SpecFuse)
\* ------------------------------------------------------------------------

HasMarker(l) ==
    \E i \in 1..Len(l.text) :
        \/ l.text[i] \in {"|", "#"}
        \/ \E m \in {S_HIT, S_MATCH, S_Score} : LitAt(l.text, i, m)
MatchedLines(report) == {i \in 1..Len(report) : HasMarker(report[i])}
\* the characters of the lines that match the filter
RECURSIVE SumOver(_, _)
SumOver(report, idx) ==
    IF idx = {} THEN 0
    ELSE LET i == CHOOSE j \in idx : TRUE
         IN LineLen(report[i]) + SumOver(report, idx \ {i})
MatchedChars(report) == SumOver(report, MatchedLines(report))
FuseDone == fuse.pc = "done"

\* C18, as stated: when the lines that match the filter hold fewer than 500
\* characters in all, the fallback is taken and the text handed on is a
\* prefix of the report of at most 20,000 characters.
C18_FallbackCountsMatchedOnly ==
    (FuseDone /\ MatchedChars(fuse.report_content) < 500) =>
        /\ fuse.clean_report_content.path = "fallback"
        /\ fuse.clean_report_content.len <= 20000

\* C18, amended: the fallback is taken exactly when the filtered text, that
\* is the header of 34 characters followed by every matching line with its
\* newline, is shorter than 500 characters; the text handed on is then the
\* report cut to its first 20,000 characters, and otherwise the filtered
\* text.
C18_FallbackOnShortFilteredText ==
    FuseDone =>
        LET report == fuse.report_content
            n == 34 + MatchedChars(report) + Cardinality(MatchedLines(report))
            out == fuse.clean_report_content
        IN /\ out.path = "fallback" <=> n < 500
           /\ out.path = "fallback" =>
                 /\ out.lines = report
                 /\ out.len <= 20000
                 /\ out.len <= TextLen(report)
                 /\ out.len = 20000 \/ out.len = TextLen(report)
           /\ out.path = "filter" =>
                 /\ out.len = n
                 /\ Len(out.lines) = Cardinality(MatchedLines(report))
                 /\ \A i \in 1..Len(out.lines) : HasMarker(out.lines[i])

\* C18 witness: one matching line of 464 characters, one character short of
\* the minimum once the header and the newline are counted, in a report of
\* more than 20,000 characters: the fallback cut the report.
C18_Witness ==
    /\ FuseDone
    /\ MatchedChars(fuse.report_content) = 464
    /\ TextLen(fuse.report_content) > 20000
    /\ fuse.clean_report_content.path = "fallback"
    /\ fuse.clean_report_content.len = 20000

\* C19, as stated: whichever path is taken, the text handed to the
\* synthesis stage has at most 20,000 characters.
C19_ContextBounded ==
    FuseDone => fuse.clean_report_content.len <= 20000

\* ------------------------------------------------------------------------
\* Properties of the vetting stage (Spec)
\* ------------------------------------------------------------------------

ExtractedFrom(texts) ==
    UNION {extract_tickers_from_analysis(texts[i]) : i \in 1..Len(texts)}
Vetted == {red.final_report[i].ticker : i \in 1..Len(red.final_report)}

C21_LatencyOfFinalAttempt ==
    [][(/\ call.pc = "try"
        /\ call.attempt >= 1
        /\ call'.pc \in {"returned", "raised"})
       => call'.emitted[Len(call'.emitted)].latency_ms
             = call'.elapsed - call.elapsed]_vars

\* ------------------------------------------------------------------------
\* The retrying client with an output sink that can fail (SpecSink)
\*
\* print(f"__API_LOG__{json.dumps(log_entry)}") writes to the standard
\* output of the process, a pipe when the program runs under web/server.py.
\* A write to a closed pipe raises BrokenPipeError.  SpecClient is the call
\* with a sink that always accepts the line; here every print of a record is
\* an input that either succeeds or raises.
\* ------------------------------------------------------------------------

\* str(BrokenPipeError(32, "Broken pipe"))
E_Pipe ==
    <<"[", "E", "r", "r", "n", "o", " ", "3", "2", "]", " ",
      "B", "r", "o", "k", "e", "n", " ", "p", "i", "p", "e">>

\* whether the first and the second print of a record in one pass succeed
SinkChoices == {<<TRUE, TRUE>>, <<FALSE, TRUE>>, <<FALSE, FALSE>>}

\* lines 143-150 with the print of line 148 as an input: when it raises, the
\* exception leaves the except block in place of `raise e`
OnTerminalError_Sink(st, error_str, t, printed) ==
    IF printed THEN OnTerminalError(st, error_str, t)
    ELSE [st EXCEPT !.pc = "raised", !.elapsed = t,
                    !.log_entry = [@ EXCEPT !.status = "ERROR",
                                            !.error = error_str,
                                            !.latency_ms = t],
                    !.result = E_Pipe]

\* lines 117-129 with the print of line 126 as an input: it stands inside the
\* try, so when it raises the except block of line 131 handles the exception
\* as it handles a failure of the remote call
OnSuccess_Sink(st, text, t, jitter, sink) ==
    IF sink[1] THEN OnSuccess(st, text, t)
    ELSE LET st1 == [st EXCEPT !.log_entry =
                        [@ EXCEPT !.status = "200 OK", !.latency_ms = t,
                                  !.response = ResponseDigest(text)]]
         IN IF ShouldRetry(E_Pipe, st.attempt)
            THEN OnRetry(st1, E_Pipe, t, jitter)
            ELSE OnTerminalError_Sink(st1, E_Pipe, t, sink[2])

\* One pass of the loop body (lines 110-150) with a sink that can fail.
AttemptStep_Sink(st, out, dur, jitter, sink) ==
    LET t == st.elapsed + dur
        st1 == [st EXCEPT !.calls = Append(@, out)]
    IN IF out.ok THEN OnSuccess_Sink(st1, out.val, t, jitter, sink)
       ELSE IF ShouldRetry(out.val, st.attempt) THEN OnRetry(st1, out.val, t, jitter)
       ELSE OnTerminalError_Sink(st1, out.val, t, sink[1])

SinkAttempt ==
    /\ call.pc = "try"
    /\ \E out \in RemoteOutcomes, dur \in CallDurations, j \in JitterChoices,
          sink \in SinkChoices :
          call' = AttemptStep_Sink(call, out, dur, j, sink)
    /\ UNCHANGED <<pipeVars, unitVars>>

SinkSleep ==
    /\ call.pc = "sleep"
    /\ call' = SleepStep(call)
    /\ UNCHANGED <<pipeVars, unitVars>>

NextSink == SinkAttempt \/ SinkSleep

SpecSink == InitClient /\ [][NextSink]_vars

\* C22, as stated: the way a logical call ends is decided by the outcomes of
\* its remote calls alone, whether the prints of its record succeed or not.
\* A call whose last remote call succeeded returns the text of that call; a
\* call whose last remote call failed raises that failure.
C22_RecordNeverChangesOutcome ==
    Terminal =>
       LET last == call.calls[Len(call.calls)]
       IN IF last.ok
          THEN call.pc = "returned" /\ call.result = last.val
          ELSE call.pc = "raised" /\ call.result = last.val

\* ------------------------------------------------------------------------
\* Properties of the stages that call X.AI (Spec)
\* ------------------------------------------------------------------------

RateLimited(out) == ~out.ok /\ IsRateLimit(out.val)
LastCall(fr) == fr.cl.calls[Len(fr.cl.calls)]

\* C23, as stated: in every stage, the X-platform ideas stage included, a
\* stage that reports a failure after a rate-limited attempt has made that
\* attempt and 3 further ones (max_retries + 1 remote calls in all).
C23_EveryStageRetries ==
    \A s \in StageIds :
       (/\ stage[s].pc = "done"
        /\ stage[s].failed
        /\ stage[s].cl.calls # <<>>
        /\ RateLimited(LastCall(stage[s])))
       => Len(stage[s].cl.calls) = max_retries + 1

\* C24, as stated: in every stage, a remote call that fails for good emits
\* one record with status "ERROR": a stage that ended after the failure of
\* its last remote call holds exactly one emitted record, and that record has
\* status "ERROR".
C24_FailedCallEmitsErrorRecord ==
    \A s \in StageIds :
       (/\ stage[s].pc = "done"
        /\ stage[s].cl.calls # <<>>
        /\ ~LastCall(stage[s]).ok)
       => /\ Len(stage[s].cl.emitted) = 1
          /\ stage[s].cl.emitted[1].status = "ERROR"

\* ------------------------------------------------------------------------
\* Properties of the backoff sleeps (Spec)
\* ------------------------------------------------------------------------

\* a step of the worker thread that runs stage t
StageStep(t) ==
    IF t = "x" THEN X_Start \/ X_Call
    ELSE Worker_Start(t) \/ Worker_Attempt(t) \/ Worker_Sleep(t)

Sleeping(fr) == fr.pc = "calling" /\ fr.cl.pc = "sleep"

\* the stages: while the call of one stage sleeps, every other stage that is
\* submitted and not finished can take its next step
StageSleepIsLocal ==
    \A s \in GeminiStages :
       Sleeping(stage[s]) =>
          \A t \in StageIds \ {s} :
             stage[t].pc \in {"queued", "calling"} => ENABLED StageStep(t)

\* C25, as stated: a backoff sleep delays only the task that sleeps.  While
\* the call of one stage sleeps the other stages can take their next step,
\* and while the vetting call of one symbol sleeps the vetting of the next
\* symbol of the list can start.
C25_SleepIsLocal ==
    /\ StageSleepIsLocal
    /\ (Sleeping(red) /\ red.idx < Len(tickers)) => ENABLED Red_Prompt

\* ------------------------------------------------------------------------
\* Properties of the scan engine: the result list, termination (SpecScan)
\* ------------------------------------------------------------------------

\* what the for loop has appended after taking the first k futures
RECURSIVE CollectedData(_, _)
CollectedData(sc, k) ==
    IF k = 0 THEN <<>>
    ELSE CollectedData(sc, k - 1) \o sc.fut[sc.yield_q[k]].data

TimesReturned(t) ==
    Cardinality({i \in 1..Len(scan.returned) : scan.returned[i].ticker = t})

\* C26: in every interleaving the result list is written by the collecting
\* loop alone.  It is empty until the loop starts; while the loop runs it
\* holds exactly the snapshots of the futures the loop has taken, in the
\* order taken, whatever the workers do meanwhile; and the sequence returned
\* holds the snapshot of every worker that left one exactly once and nothing
\* else.
C26_OnlyCoordinatorAppends ==
    /\ scan.pc = "submitted" => scan.results = <<>>
    /\ scan.pc = "collecting" => scan.results = CollectedData(scan, scan.taken)
    /\ ScanReturned =>
          \A t \in Universe :
             TimesReturned(t) = IF scan.fut[t].data # <<>> THEN 1 ELSE 0

\* C26 witness: three snapshots returned; two workers had completed before
\* the loop started and were taken in the reverse of their completion order,
\* and the third completed while the loop was running.
C26_Witness ==
    /\ ScanReturned
    /\ Len(scan.returned) = 3
    /\ scan.early = 2
    /\ scan.yield_q[1] = scan.done_order[2]
    /\ scan.yield_q[2] = scan.done_order[1]

\* ------------------------------------------------------------------------
\* scan called again (SpecRescan): one call of scan_tickers / scan_etfs and
\* then further calls on the same universe, with fair scheduling of the pool
\* threads and of the calling thread
\* ------------------------------------------------------------------------

\* the calls of one behaviour
MaxScanCalls == 2

F_AllIn ==
    [t \in Universe |->
        IF t = "X" THEN Feed("ok", "ok", H_Hot)
        ELSE IF t = "Y" THEN Feed("ok", "ok", H_Volume)
        ELSE Feed("ok", "ok", H_Ceiling)]
F_Mixed ==
    [t \in Universe |->
        IF t = "X" THEN Feed("ok", "ok", H_Hot)
        ELSE IF t = "Y" THEN Feed("ok", "ok", H_Short)
        ELSE Feed("ok", "raises", H_Hot)]
F_NoneIn ==
    [t \in Universe |->
        IF t = "X" THEN Feed("ok", "ok", H_Dull)
        ELSE IF t = "Y" THEN Feed("ok", "ok", H_Empty)
        ELSE Feed("raises", "ok", H_Hot)]
RescanFeeds == {F_AllIn, F_Mixed, F_NoneIn}
RescanKinds == {"us", "etf"}

\* a variant in which the list of the previous call is the list of the next
Rescan_KeepsResults(sc, feed) ==
    [NewScan(sc.kind, feed) EXCEPT !.results = sc.returned]
    @@ [call_no |-> sc.call_no + 1, prev |-> sc.returned]
\* the next call: results = [] and a new executor with new futures (lines
\* 38-44); call_no and prev record the history of calls and are read by no
\* action
Rescan(sc, feed) ==
    NewScan(sc.kind, feed) @@ [call_no |-> sc.call_no + 1, prev |-> sc.returned]

InitRescan ==
    /\ ScanIdle
    /\ \E kind \in RescanKinds, feed \in RescanFeeds :
          scan = NewScan(kind, feed) @@ [call_no |-> 1, prev |-> <<>>]

Scan_Again ==
    /\ scan.pc = "returned"
    /\ scan.call_no < MaxScanCalls
    /\ \E feed \in RescanFeeds : scan' = Rescan(scan, feed)
    /\ UNCHANGED scanOthers

NextRescan == NextScan \/ Scan_Again

\* every pool thread and the calling thread keep running; whether the scan
\* is called again is up to the caller
SpecRescan == InitRescan /\ [][NextRescan]_vars /\ WF_vars(NextScan)

Dropped == {t \in Universe : scan.fut[t].data = <<>>}

\* what holds when a call of scan has returned
ScanAccounts ==
    ScanReturned =>
       /\ \A t \in Universe : scan.fut[t].state = "done"
       /\ Len(scan.done_order) = Cardinality(Universe)
       /\ {scan.done_order[i] : i \in 1..Len(scan.done_order)} = Universe
       /\ scan.taken = Cardinality(Universe)
       /\ Len(scan.returned) + Cardinality(Dropped) = Cardinality(Universe)
       /\ Dropped = {t \in Universe : ~Qualifies(t)}
       /\ ReturnedTickers = Universe \ Dropped

\* C27: every call of scan returns, the first and the one made after it; it
\* returns only when every worker has finished, each symbol of the universe
\* having had one worker; at return the snapshots and the symbols dropped
\* (no data, score below 20, worker failure) add up to the universe; and
\* what a call returns is decided by what its own workers found, whatever
\* the call before it returned.
C27_ScanTerminatesAndAccounts ==
    /\ (scan.pc # "returned") ~> ScanReturned
    /\ []ScanAccounts

\* C27 witness: a second call has returned one snapshot and dropped a symbol
\* with a short history and a symbol whose worker failed, after a first call
\* that had returned three snapshots.
C27_Witness ==
    /\ ScanReturned
    /\ scan.call_no = 2
    /\ Len(scan.prev) = 3
    /\ scan.feed = F_Mixed
    /\ Len(scan.returned) = 1
    /\ Cardinality(Dropped) = 2

\* ------------------------------------------------------------------------
\* Properties of the extractor: whole tokens (SpecExtract)
\* ------------------------------------------------------------------------

\* sym stands in text at i and no capital follows it
WholeTokenAt(text, sym, i) ==
    /\ LitAt(text, i, sym)
    /\ At(text, i + Len(sym)) \notin Upper

\* C28, as stated: every symbol returned stands in the text as a whole
\* token, that is, somewhere it is not followed by a further capital; a word
\* of 7 capitals after an opening that the patterns accept yields no symbol.
C28_SymbolsAreWholeTokens ==
    ext.pc = "returned" =>
        /\ \A sym \in ext.out :
              \E i \in 1..Len(ext.text) : WholeTokenAt(ext.text, sym, i)
        /\ \A o \in AcceptedOpenings : ext.text = o \o K_Seven => ext.out = {}

\* ------------------------------------------------------------------------
\* Properties of the scan engine: histories of less than a year (SpecScan)
\* ------------------------------------------------------------------------

YoungHistory(t) ==
    /\ scan.feed[t].fetch = "ok"
    /\ scan.feed[t].compute = "ok"
    /\ scan.feed[t].h.n >= MinHistory
    /\ scan.feed[t].h.n < CeilingWindow

\* C29: a symbol with 50 to 251 rows has no ceiling on its last row: its
\* snapshot, when it has one, is not breaking out, scores at most 60 and
\* reports an undefined distance from the high.  The history of 251 rows
\* whose last close is its highest high, and which earns every other award,
\* scores exactly 60; with 252 rows the ceiling is defined.
C29_NoCeilingBeforeAYear ==
    \A t \in Universe :
        (scan.fut[t].state = "done" /\ scan.fut[t].data # <<>>) =>
            LET snap == scan.fut[t].data[1]
            IN /\ YoungHistory(t) =>
                     /\ ~snap.is_breaking_out
                     /\ snap.score <= 60
                     /\ IsNaN(snap.pct_from_high)
               /\ FedWith(t, H_Young) => snap.score = 60
               /\ (scan.feed[t].h.n >= CeilingWindow /\ scan.feed[t].h.high_252 > 0)
                     => ~IsNaN(snap.pct_from_high)

\* C29 witness: a scan returned the symbol of 251 rows with score 60 and no
\* breakout, behind the symbol of 252 rows that is breaking out.
C29_Witness ==
    /\ ScanReturned
    /\ \E i, j \in 1..Len(scan.returned) :
          /\ FedWith(scan.returned[i].ticker, H_Young)
          /\ scan.returned[i].score = 60
          /\ ~scan.returned[i].is_breaking_out
          /\ FedWith(scan.returned[j].ticker, H_Ceiling)
          /\ scan.returned[j].is_breaking_out
          /\ scan.returned[j].pct_from_high = Q(-200, 100)

\* ------------------------------------------------------------------------
\* SpecMerge: the scans of one run of main() and the master list (main.py
\* lines 214-243).  Each scanner is called with its own list of symbols and
\* returns what SpecScan shows a call to return: the snapshots of the
\* symbols that qualify, sorted by score, ties in the order collected.
\* ------------------------------------------------------------------------

\* The lists the program scans, one symbol for each way a symbol stands in
\* them: NVDA is in DEFAULT_TICKERS only, TSM in the international list
\* only, ARM in both (stocks_us/scanner.py line 15 and
\* stocks_international/market_data.py line 41), GLD in ALL_ETFS only.  No
\* list names a symbol twice.
US_TICKERS == {"NVDA", "ARM"}
INTL_TICKERS == {"TSM", "ARM"}
ALL_ETFS == {"GLD"}

\* what the data source can hold for a symbol at the time of a scan
MergeFeeds == {Feed("ok", "ok", H_Hot), Feed("ok", "ok", H_Volume), Feed("ok", "ok", H_Dull)}

\* the snapshots the workers of one scan leave
SnapshotsOf(kind, U, feed) ==
    {AnalyzeFrame(kind, t, feed[t]).data[1] :
        t \in {u \in U : AnalyzeFrame(kind, u, feed[u]).data # <<>>}}

\* the sequences a call of the scanner can return
ScanReturns(kind, U) ==
    UNION {{SortByScoreDesc(o) : o \in Orderings(SnapshotsOf(kind, U, feed))} :
              feed \in [U -> MergeFeeds]}

InitMerge ==
    /\ call = IdleCall
    /\ UnitsIdle
    /\ args \in [scan : BOOLEAN, stocks : BOOLEAN, etfs : BOOLEAN, ai : {FALSE}]
    /\ env = [GEMINI_API_KEY |-> TRUE, XAI_API_KEY |-> TRUE, missing |-> {}]
    /\ mpc = "scan"
    /\ launched = FALSE
    /\ stage = [s \in StageIds |-> NewFrame]
    /\ joined = 0
    /\ analysis = [s \in StageIds |-> None]
    /\ all_results = <<>>
    /\ handed = <<>>
    /\ tickers = <<>>
    /\ red = NewRed
    /\ analysis_red = NoText
    /\ cio = NewFrame
    /\ cio_args = NoText
    /\ analysis_cio = None
    /\ rateHits = 0

mergeOthers ==
    <<call, ext, fuse, args, env, launched, stage, joined, analysis, handed, tickers,
      red, analysis_red, cio, cio_args, analysis_cio, rateHits>>

\* one call of a scanner and all_results.extend of what it returned
ScanAndExtend(kind, U, next) ==
    /\ \E r \in ScanReturns(kind, U) :
          /\ scan' = [pc |-> "returned", kind |-> kind, returned |-> r]
          /\ all_results' = all_results \o r
    /\ mpc' = next

\* lines 214-223: the US scan
Merge_US ==
    /\ mpc = "scan"
    /\ IF args.scan \/ args.stocks
       THEN ScanAndExtend("us", US_TICKERS, "scan_intl")
       ELSE mpc' = "scan_etfs" /\ UNCHANGED <<scan, all_results>>
    /\ UNCHANGED mergeOthers

\* lines 225-229: the international scan
Merge_Intl ==
    /\ mpc = "scan_intl"
    /\ ScanAndExtend("intl", INTL_TICKERS, "scan_etfs")
    /\ UNCHANGED mergeOthers

\* lines 231-236: the ETF scan
Merge_Etfs ==
    /\ mpc = "scan_etfs"
    /\ IF args.scan \/ args.etfs
       THEN ScanAndExtend("etf", ALL_ETFS, "report")
       ELSE mpc' = "report" /\ UNCHANGED <<scan, all_results>>
    /\ UNCHANGED mergeOthers

\* lines 238-243: nothing found, or the sort of the master list
Merge_Sort ==
    /\ mpc = "report"
    /\ IF all_results = <<>> /\ ~args.ai
       THEN mpc' = "no_opportunities" /\ UNCHANGED all_results
       ELSE mpc' = "master" /\ all_results' = SortByScoreDesc(all_results)
    /\ UNCHANGED <<scan, mergeOthers>>

NextMerge == Merge_US \/ Merge_Intl \/ Merge_Etfs \/ Merge_Sort

SpecMerge == InitMerge /\ [][NextMerge]_vars

NoRepeat(q) == \A i, j \in 1..Len(q) : i # j => q[i].ticker # q[j].ticker

\* C30, as stated: no symbol stands twice in the sequence a scanner returns,
\* nor in the master list that main() builds from the three scans.
C30_OneSnapshotPerSymbol ==
    /\ scan.pc = "returned" => NoRepeat(scan.returned)
    /\ NoRepeat(all_results)

=============================================================================
